---- MODULE Spec2Model ----
(***************************************************************************)
(* A model of the Voltasis MCP documentation server: the stdio bridges     *)
(* (the ordering bridge and the transparent proxy), the local stdio server *)
(* with its protocol router, and the Lambda HTTP handler with its tools,   *)
(* pagination and size guard.                                              *)
(***************************************************************************)
EXTENDS Integers, Sequences, FiniteSets, TLC

VARIABLES
    \* ---- stdio bridges -------------------------------------------------
    bridgeKind,      \* which bridge script runs: "queue" or "proxy"
    linesRead,       \* number of stdin lines the bridge has handled
    received,        \* ids of the forwarded or locally answered requests, in arrival order
    pending,         \* ids whose outbound https.request has not finished
    finished,        \* ids whose outbound call finished or that were answered locally
    responseQueue,   \* the Map<number, any> of held responses
    lastSentId,      \* the id released last by sendQueuedResponses
    stdout,          \* the lines written to process.stdout, in order
    \* ---- stores -------------------------------------------------------
    store,           \* the DOCUMENT rows (and the local index), in sort-key order
    blobBytes,       \* byte length of every stored blob, NO_BLOB when the blobs are absent
    storeFails,      \* TRUE when the document store rejects every call
    blobKeys,        \* the keys of the markdown objects in the documents bucket
    metadataRows,    \* the DOC#<path> rows of the index table, by path
    \* ---- routers ------------------------------------------------------
    initialized,     \* MCPProtocolHandler.initialized of the local server
    transport,       \* front end that handled the last input: "none", "local", "http"
    input,           \* the last raw input (a stdin line or an HTTP body)
    returned,        \* what the router returned for it
    written,         \* what the transport wrote to its response channel for it
    toolsRun,        \* the tool functions executed while handling it
    listTool,        \* the list tool a client pages through, or "none"
    listArgs,        \* the arguments it sends with every page request
    pages,           \* the tool results it has collected, page 0 first
    stdinOpen,       \* the bridge process's input stream has not ended
    exitCause,       \* "running", or why the bridge process ended
    \* ---- line callbacks of the local server --------------------------
    handlers,        \* the position of every line callback that reached initialize()
    loads            \* how many times DocumentManager.initialize was called

bridgeVars == <<bridgeKind, linesRead, received, pending, finished,
                responseQueue, lastSentId, stdout>>

storeVars == <<store, blobBytes, storeFails, blobKeys, metadataRows>>
routerVars == <<initialized, transport, input, returned, written, toolsRun>>

pagingVars == <<listTool, listArgs, pages>>

processVars == <<stdinOpen, exitCause>>

loaderVars == <<handlers, loads>>

vars == <<bridgeVars, storeVars, routerVars, pagingVars, processVars, loaderVars>>

\* No pipeline has written to the bucket or to the DOC# rows
WritersIdle == blobKeys = {} /\ metadataRows = <<>>

\* No line callback has reached initialize()
LoaderIdle == handlers = <<>> /\ loads = 0

\* A process that started and reads its input
ProcessRunning ==
    /\ stdinOpen = TRUE
    /\ exitCause = "running"

\* No client is paging through a list
PagingIdle ==
    /\ listTool = "none"
    /\ listArgs = [k \in {} |-> 0]
    /\ pages = <<>>

----------------------------------------------------------------------------
\* Bounds of the model
MaxLines == 4        \* stdin lines a bridge run reads
MaxId == 3           \* request ids are 0..MaxId

RequestIds == 0..MaxId

----------------------------------------------------------------------------
\* The stdio bridges

NOTIFICATION_PREFIX == "notifications/"

\* Methods a client sends over stdin, with what startsWith('notifications/') gives.
BridgeMethods == {"initialize", "tools/list", "tools/call", "initialized", "ping",
                  "notifications/initialized", "notifications/cancelled"}

startsWithNotifications(method) ==
    method \in {"notifications/initialized", "notifications/cancelled"}

\* A stdin line: not JSON, a notification (no id), or a request with an id.
BridgeLines ==
    {[kind |-> "garbage"]}
    \cup {[kind |-> "message", method |-> m] :
            m \in {x \in BridgeMethods : startsWithNotifications(x)}}
    \cup {[kind |-> "message", method |-> m, id |-> i] :
            m \in {x \in BridgeMethods : ~startsWithNotifications(x)}, i \in RequestIds}

\* The response objects a bridge builds itself.
localResult(id) == [jsonrpc |-> "2.0", id |-> id, kind |-> "result", from |-> "bridge"]
bridgeError(id, message) ==
    [jsonrpc |-> "2.0", id |-> id, kind |-> "error", code |-> -32603,
     message |-> message, from |-> "bridge"]
\* The parsed body of a Lambda answer: the envelope echoes the request's id.
lambdaBody(id) == [jsonrpc |-> "2.0", id |-> id, kind |-> "result", from |-> "lambda"]

mapSet(map, key, value) ==
    [k \in DOMAIN map \cup {key} |-> IF k = key THEN value ELSE map[k]]
mapDelete(map, key) == [k \in DOMAIN map \ {key} |-> map[k]]

\* sendQueuedResponses releasing a held response whatever its id
sendQueuedResponses_anyHeld(queue, last, out) ==
    LET key == CHOOSE k \in DOMAIN queue : TRUE
    IN  [queue |-> mapDelete(queue, key), last |-> key, out |-> Append(out, queue[key])]

\* sendQueuedResponses: while the queue holds lastSentId + 1, release it.
RECURSIVE sendQueuedResponses(_, _, _)
sendQueuedResponses(queue, last, out) ==
    IF (last + 1) \in DOMAIN queue
    THEN sendQueuedResponses(mapDelete(queue, last + 1), last + 1,
                             Append(out, queue[last + 1]))
    ELSE [queue |-> queue, last |-> last, out |-> out]

\* responseQueue.set(id, response); sendQueuedResponses()
QueueAndSend(id, response) ==
    LET r == sendQueuedResponses(mapSet(responseQueue, id, response), lastSentId, stdout)
    IN  /\ responseQueue' = r.queue
        /\ lastSentId' = r.last
        /\ stdout' = r.out

BridgeStart ==
    /\ bridgeKind \in {"queue", "proxy"}
    /\ linesRead = 0
    /\ received = <<>>
    /\ pending = {}
    /\ finished = {}
    /\ responseQueue = [k \in {} |-> 0]
    /\ lastSentId = -1
    /\ stdout = <<>>
    /\ store = <<>>
    /\ blobBytes = -1
    /\ storeFails = FALSE
    /\ WritersIdle
    /\ LoaderIdle
    /\ initialized = FALSE
    /\ transport = "none"
    /\ input = [kind |-> "none"]
    /\ returned = <<>>
    /\ written = <<>>
    /\ toolsRun = {}
    /\ PagingIdle
    /\ stdinOpen = TRUE
    /\ exitCause \in {"running", "startup"}

SeqRange(s) == {s[i] : i \in 1..Len(s)}

\* rl.on('line') of the ordering bridge
QueueBridgeLine(line) ==
    /\ UNCHANGED <<storeVars, loaderVars, routerVars, pagingVars, processVars>>
    /\ bridgeKind = "queue"
    /\ exitCause = "running"
    /\ stdinOpen
    /\ linesRead < MaxLines
    /\ linesRead' = linesRead + 1
    /\ UNCHANGED bridgeKind
    /\ IF line.kind = "garbage" \/ startsWithNotifications(line.method)
       THEN UNCHANGED <<received, pending, finished, responseQueue, lastSentId, stdout>>
       ELSE /\ line.id \notin SeqRange(received)
            /\ received' = Append(received, line.id)
            /\ IF line.method \in {"initialized", "ping"}
               THEN /\ QueueAndSend(line.id, localResult(line.id))
                    /\ finished' = finished \cup {line.id}
                    /\ UNCHANGED pending
               ELSE /\ pending' = pending \cup {line.id}
                    /\ UNCHANGED <<finished, responseQueue, lastSentId, stdout>>

\* res.on('end') of the ordering bridge: the body parses, or JSON.parse throws
\* and the catch only writes a debug line.
QueueBridgeEnd(id, parses) ==
    /\ UNCHANGED <<storeVars, loaderVars, routerVars, pagingVars, processVars>>
    /\ bridgeKind = "queue"
    /\ exitCause = "running"
    /\ id \in pending
    /\ pending' = pending \ {id}
    /\ finished' = finished \cup {id}
    /\ IF parses
       THEN QueueAndSend(id, lambdaBody(id))
       ELSE UNCHANGED <<responseQueue, lastSentId, stdout>>
    /\ UNCHANGED <<bridgeKind, linesRead, received>>

\* req.on('error') of the ordering bridge
QueueBridgeError(id) ==
    /\ UNCHANGED <<storeVars, loaderVars, routerVars, pagingVars, processVars>>
    /\ bridgeKind = "queue"
    /\ exitCause = "running"
    /\ id \in pending
    /\ pending' = pending \ {id}
    /\ finished' = finished \cup {id}
    /\ QueueAndSend(id, bridgeError(id, "Internal error"))
    /\ UNCHANGED <<bridgeKind, linesRead, received>>

\* rl.on('line') of the transparent proxy
ProxyLine(line) ==
    /\ UNCHANGED <<storeVars, loaderVars, routerVars, pagingVars, processVars>>
    /\ bridgeKind = "proxy"
    /\ exitCause = "running"
    /\ stdinOpen
    /\ linesRead < MaxLines
    /\ linesRead' = linesRead + 1
    /\ IF line.kind = "garbage" \/ startsWithNotifications(line.method)
       THEN UNCHANGED <<received, pending>>
       ELSE /\ line.id \notin SeqRange(received)
            /\ received' = Append(received, line.id)
            /\ pending' = pending \cup {line.id}
    /\ UNCHANGED <<bridgeKind, finished, responseQueue, lastSentId, stdout>>

\* res.on('end') of the transparent proxy: the body is written as it came, or
\* an error response is written when it does not parse.
ProxyEnd(id, parses) ==
    /\ UNCHANGED <<storeVars, loaderVars, routerVars, pagingVars, processVars>>
    /\ bridgeKind = "proxy"
    /\ exitCause = "running"
    /\ id \in pending
    /\ pending' = pending \ {id}
    /\ finished' = finished \cup {id}
    /\ stdout' = Append(stdout, IF parses THEN lambdaBody(id)
                                ELSE bridgeError(id, "Invalid response from server"))
    /\ UNCHANGED <<bridgeKind, linesRead, received, responseQueue, lastSentId>>

\* req.on('error') of the transparent proxy
ProxyError(id) ==
    /\ UNCHANGED <<storeVars, loaderVars, routerVars, pagingVars, processVars>>
    /\ bridgeKind = "proxy"
    /\ exitCause = "running"
    /\ id \in pending
    /\ pending' = pending \ {id}
    /\ finished' = finished \cup {id}
    /\ stdout' = Append(stdout, bridgeError(id, "Network error"))
    /\ UNCHANGED <<bridgeKind, linesRead, received, responseQueue, lastSentId>>

\* rl.on('close'): the input stream ended; the handler does not exit
StdinClose ==
    /\ exitCause = "running"
    /\ stdinOpen
    /\ stdinOpen' = FALSE
    /\ UNCHANGED <<exitCause, bridgeVars, storeVars, loaderVars, routerVars, pagingVars>>

\* process.on('SIGINT') and process.on('SIGTERM'): process.exit(0)
TerminationSignal ==
    /\ exitCause = "running"
    /\ exitCause' = "signal"
    /\ UNCHANGED <<stdinOpen, bridgeVars, storeVars, loaderVars, routerVars, pagingVars>>

\* Nothing keeps the process: the input stream has ended, no HTTPS call is
\* outstanding, and a signal handler holds no process.  Node.js then ends it.
EventLoopEmpty ==
    /\ exitCause = "running"
    /\ ~stdinOpen
    /\ pending = {}
    /\ exitCause' = "eventLoopEmpty"
    /\ UNCHANGED <<stdinOpen, bridgeVars, storeVars, loaderVars, routerVars, pagingVars>>

BridgeNext ==
    \/ \E line \in BridgeLines : QueueBridgeLine(line)
    \/ \E id \in RequestIds, parses \in BOOLEAN : QueueBridgeEnd(id, parses)
    \/ \E id \in RequestIds : QueueBridgeError(id)
    \/ \E line \in BridgeLines : ProxyLine(line)
    \/ \E id \in RequestIds, parses \in BOOLEAN : ProxyEnd(id, parses)
    \/ \E id \in RequestIds : ProxyError(id)
    \/ StdinClose
    \/ TerminationSignal
    \/ EventLoopEmpty

SpecBridge == BridgeStart /\ [][BridgeNext]_vars

----------------------------------------------------------------------------
\* JavaScript values

UNDEFINED == "<undefined>"     \* the value of a missing property
NULL == "<null>"
NaN == "NaN"
Infinity == "Infinity"

EmptyObject == [k \in {} |-> UNDEFINED]

\* obj.f, UNDEFINED when the object has no such property
Field(obj, f) == IF f \in DOMAIN obj THEN obj[f] ELSE UNDEFINED

Min(a, b) == IF a < b THEN a ELSE b
Max(a, b) == IF a > b THEN a ELSE b

\* Text is a sequence of characters, so that substring search and joins are computed.
toLowerCase(text) ==
    [i \in 1..Len(text) |->
        CASE text[i] = "U" -> "u" [] text[i] = "G" -> "g" [] text[i] = "A" -> "a"
          [] text[i] = "E" -> "e" [] OTHER -> text[i]]

\* text.includes(query)
includes(text, query) ==
    \E i \in 1..(Len(text) - Len(query) + 1) : SubSeq(text, i, i + Len(query) - 1) = query

RECURSIVE join(_, _)
join(texts, sep) ==
    IF Len(texts) = 0 THEN <<>>
    ELSE IF Len(texts) = 1 THEN texts[1]
    ELSE texts[1] \o sep \o join(Tail(texts), sep)

\* array.slice(start, end): negative indexes count from the end of the array
slice(s, start, end) ==
    LET n == Len(s)
        from == IF start < 0 THEN Max(n + start, 0) ELSE Min(start, n)
        to == IF end < 0 THEN Max(n + end, 0) ELSE Min(end, n)
    IN  IF from >= to THEN <<>> ELSE SubSeq(s, from + 1, to)

\* Math.ceil(a / b) for a >= 0: Infinity or NaN when b is 0
ceilDiv(a, b) ==
    IF b = 0 THEN (IF a = 0 THEN NaN ELSE Infinity)
    ELSE IF b > 0 THEN (a + b - 1) \div b
    ELSE 0 - (a \div (0 - b))

\* page < Math.ceil(totalItems / pageSize) - 1 on JavaScript numbers: a comparison
\* with NaN is false, and every page is below Infinity
hasMorePages(page, totalItems, pageSize) ==
    IF pageSize = 0 THEN totalItems # 0
    ELSE page < ceilDiv(totalItems, pageSize) - 1

----------------------------------------------------------------------------
\* Documents

T_users == <<"U", "s", "e", "r", "s">>
T_guide == <<"A", "u", "t", "h">>
T_endpoint == <<"e", "n", "d", "p", "o", "i", "n", "t">>
T_schema == <<"s", "c", "h", "e", "m", "a">>
T_auth == <<"a", "u", "t", "h">>
T_undefined == <<"u", "n", "d", "e", "f", "i", "n", "e", "d">>
T_space == <<" ">>

\* The documents the stores are filled from, in sort-key (id) order.
\* generateEndpointId(path, method) of the document processor:
\* `api${cleanPath}-${method.toLowerCase()}`, cleanPath being the path without
\* braces and with every "/" replaced by "-" (a leading "/" gives a leading "-")
generateEndpointId(path, method) ==
    CASE path = "/api/v1/users" /\ method = "get" -> "api-api-v1-users-get"
      [] path = "/api/v1/users" /\ method = "post" -> "api-api-v1-users-post"
      [] path = "/users" /\ method = "get" -> "api-users-get"
      [] path = "/users" /\ method = "post" -> "api-users-post"

\* method.toUpperCase() on the operation keys of an OpenAPI path item
toUpperCase(method) ==
    CASE method = "get" -> "GET" [] method = "post" -> "POST"

\* The document convertOpenAPIToMarkdown makes of one operation of an OpenAPI
\* specification: its tags are the tags of the operation
endpointDocument(path, method, summary, operationTags) ==
    [id |-> generateEndpointId(path, method), category |-> "api", title |-> summary,
     tags |-> operationTags, path |-> path, method |-> toUpperCase(method)]

DocPool == <<
    endpointDocument("/api/v1/users", "get", T_users, <<T_users>>),
    [id |-> "api-users-get", category |-> "api", title |-> T_users,
     tags |-> <<T_users, T_endpoint>>, path |-> "/api/v1/users", method |-> "GET"],
    [id |-> "api-users-post", category |-> "api", title |-> T_users,
     tags |-> <<T_endpoint>>, path |-> "/api/v1/users", method |-> "POST",
     description |-> T_users],
    [id |-> "guide-authentication", category |-> "guide", title |-> T_guide,
     tags |-> <<T_auth>>],
    [id |-> "reference-users", category |-> "reference", title |-> T_users,
     tags |-> <<>>],
    [id |-> "schema-user", category |-> "api", title |-> T_users,
     tags |-> <<T_schema>>] >>

MaxDocs == 3          \* documents in a store

RECURSIVE SubSequences(_)
SubSequences(s) ==
    IF s = <<>> THEN {<<>>}
    ELSE LET rest == SubSequences(Tail(s))
         IN  rest \cup {<<s[1]>> \o r : r \in rest}

Stores == {s \in SubSequences(DocPool) : Len(s) <= MaxDocs}

\* Maximum response size in bytes (10MB for API Gateway)
MAX_RESPONSE_SIZE == 10 * 1024 * 1024
WARN_RESPONSE_SIZE == 100 * 1024

EnvelopeBytes == 64   \* bytes of a serialized envelope around its payload
ItemBytes == 128      \* bytes of one serialized list item
NO_BLOB == -1

\* Blob sizes: absent, small, the largest that still fits, and one byte more.
BlobSizes == {NO_BLOB, 2 * ItemBytes, MAX_RESPONSE_SIZE - 2 * EnvelopeBytes,
              MAX_RESPONSE_SIZE - 2 * EnvelopeBytes + 1}

----------------------------------------------------------------------------
\* Store access of the Lambda handler

Thrown(what) == [thrown |-> what]
Value(v) == [value |-> v]
ProtocolError(code, message) == [protocolError |-> [code |-> code, message |-> message]]
IsThrown(x) == "thrown" \in DOMAIN x

has(obj, f) == f \in DOMAIN obj

\* docClient.send(new QueryCommand({PK = 'DOCUMENT', FilterExpression: category}))
QueryCommand(category) ==
    IF category = "all" THEN store
    ELSE SelectSeq(store, LAMBDA item : item.category = category)

\* docClient.send(new GetCommand({PK: 'DOCUMENT', SK: documentId})): the Item or none
GetCommand(documentId) ==
    SelectSeq(store, LAMBDA item : item.id = documentId)

\* s3Client.send(new GetObjectCommand(...)) and streamToString
GetObjectCommand(key) ==
    IF blobBytes = NO_BLOB THEN Thrown("NoSuchKey")
    ELSE [blob |-> key, bytes |-> blobBytes]

\* item.tags.includes(tag)
tagsInclude(item, tag) == \E i \in 1..Len(item.tags) : item.tags[i] = tag

----------------------------------------------------------------------------
\* JSON serialization: the text keeps the value and has a byte length

\* bytes of a tool's structured result
toolResultBytes(v) ==
    CASE has(v, "endpoints") -> EnvelopeBytes + ItemBytes * Len(v.endpoints)
      [] has(v, "schemas") -> EnvelopeBytes + ItemBytes * Len(v.schemas)
      [] has(v, "guides") -> EnvelopeBytes + ItemBytes * Len(v.guides)
      [] has(v, "resources") -> EnvelopeBytes + ItemBytes * Len(v.resources)
      [] has(v, "results") -> EnvelopeBytes + ItemBytes * Len(v.results)
      [] has(v, "document") -> EnvelopeBytes + v.document.content.bytes
      [] has(v, "schema") -> EnvelopeBytes + v.schema.content.bytes
      [] OTHER -> EnvelopeBytes + ItemBytes

\* bytes of a response envelope
responseBytes(response) ==
    IF ~has(response, "result") THEN EnvelopeBytes
    ELSE CASE has(response.result, "content") ->
                EnvelopeBytes + response.result.content[1].text.bytes
           [] has(response.result, "contents") ->
                EnvelopeBytes + response.result.contents[1].text.bytes
           [] has(response.result, "resources") ->
                EnvelopeBytes + ItemBytes * Len(response.result.resources)
           [] OTHER -> EnvelopeBytes + ItemBytes

\* JSON.stringify(toolResult.result, null, 2)
stringifyToolResult(v) == [json |-> v, bytes |-> toolResultBytes(v)]

\* JSON.stringify(response)
stringifyResponse(response) == [json |-> response, bytes |-> responseBytes(response)]

\* JSON.stringify(null): the text "null", which holds no envelope
stringifyNull == [literal |-> "null", bytes |-> 4]

\* Buffer.byteLength(body)
byteLength(body) == body.bytes

----------------------------------------------------------------------------
\* Response envelopes of the Lambda handler

\* An envelope property holding undefined is left out, as JSON.stringify leaves it out.
withId(id, rest) ==
    IF id = UNDEFINED THEN rest
    ELSE [k \in DOMAIN rest \cup {"id"} |-> IF k = "id" THEN id ELSE rest[k]]

\* createErrorResponse with the id of an unparsed request
createErrorResponse_nullId(id, code, message) ==
    [jsonrpc |-> "2.0", id |-> NULL, error |-> [code |-> code, message |-> message]]

createErrorResponse(id, code, message) ==
    withId(id, [jsonrpc |-> "2.0", error |-> [code |-> code, message |-> message]])

resultResponse(id, result) ==
    withId(id, [jsonrpc |-> "2.0", result |-> result])

----------------------------------------------------------------------------
\* The tools of the Lambda handler.  A tool returns a response envelope, or
\* Thrown(..) when a store call rejects.

DEFAULT_PAGE == 0
DEFAULT_PAGE_SIZE == 50

argPage(args) == IF has(args, "page") THEN args.page ELSE DEFAULT_PAGE
argPageSize(args) == IF has(args, "pageSize") THEN args.pageSize ELSE DEFAULT_PAGE_SIZE

\* paginate with the page taken as one-based
paginate_oneBasedPage(items, page, pageSize) ==
    LET totalItems == Len(items)
        totalPages == ceilDiv(totalItems, pageSize)
        startIndex == (page - 1) * pageSize
        endIndex == Min(startIndex + pageSize, totalItems)
    IN  [items |-> slice(items, startIndex, endIndex),
         pagination |-> [page |-> page, pageSize |-> pageSize,
                         totalPages |-> totalPages, totalItems |-> totalItems,
                         hasMore |-> hasMorePages(page, totalItems, pageSize)]]

\* "Calculate pagination" and "Get the page of results", shared by the list tools
paginate(items, page, pageSize) ==
    LET totalItems == Len(items)
        totalPages == ceilDiv(totalItems, pageSize)
        startIndex == page * pageSize
        endIndex == Min(startIndex + pageSize, totalItems)
    IN  [items |-> slice(items, startIndex, endIndex),
         pagination |-> [page |-> page, pageSize |-> pageSize,
                         totalPages |-> totalPages, totalItems |-> totalItems,
                         hasMore |-> hasMorePages(page, totalItems, pageSize)]]

itemTags(item) == item.tags
itemDescriptionText(item) ==
    IF has(item, "description") THEN item.description ELSE T_undefined

\* `${item.title} ${item.description} ${item.tags?.join(' ')}`.toLowerCase()
searchableText(item) ==
    toLowerCase(item.title \o T_space \o itemDescriptionText(item) \o T_space
                \o join(item.tags, T_space))

searchDocumentation(id, args) ==
    LET category == IF has(args, "category") THEN args.category ELSE "all"
    IN  IF ~has(args, "query") \/ args.query = <<>>
        THEN createErrorResponse(id, -32602, <<"Missing required parameter: ", "query">>)
        ELSE IF storeFails THEN Thrown("store")
        ELSE LET items == QueryCommand(category)
                 hits == SelectSeq(items, LAMBDA item :
                            includes(searchableText(item), toLowerCase(args.query)))
             IN  resultResponse(id, [results |->
                    [i \in 1..Len(hits) |->
                        [id |-> hits[i].id, title |-> hits[i].title,
                         uri |-> <<"voltasis://", hits[i].id>>,
                         tags |-> hits[i].tags, relevance |-> 1]]])

\* `api-${endpoint.replace(/\//g, '-')}${method ? `-${method.toLowerCase()}` : ''}`
\* on the endpoint arguments of the model: every "/" of the path becomes "-".
endpointDocumentId(endpoint, method) ==
    CASE endpoint = "/api/v1/users" /\ method = UNDEFINED -> "api--api-v1-users"
      [] endpoint = "/api/v1/users" /\ method = "GET" -> "api--api-v1-users-get"
      [] endpoint = "/api/v1/users" /\ method = "POST" -> "api--api-v1-users-post"
      [] endpoint = "users" /\ method = UNDEFINED -> "api-users"
      [] endpoint = "users" /\ method = "GET" -> "api-users-get"
      [] endpoint = "users" /\ method = "POST" -> "api-users-post"

getEndpointDetails(id, args) ==
    IF ~has(args, "endpoint")
    THEN createErrorResponse(id, -32602, <<"Missing required parameter: ", "endpoint">>)
    ELSE IF storeFails THEN Thrown("store")
    ELSE LET rows == GetCommand(endpointDocumentId(args.endpoint, Field(args, "method")))
         IN  IF rows = <<>>
             THEN createErrorResponse(id, -32602, <<"Endpoint not found: ", args.endpoint>>)
             ELSE resultResponse(id, [endpoint |-> rows[1]])

\* The endpoints listEndpoints pages: the api items tagged endpoint, and args.tag
endpointCandidates(args) ==
    LET api == QueryCommand("api")
        tagged == SelectSeq(api, LAMBDA item : tagsInclude(item, T_endpoint))
    IN  IF has(args, "tag")
        THEN SelectSeq(tagged, LAMBDA item : tagsInclude(item, args.tag))
        ELSE tagged

listEndpoints(id, args) ==
    IF storeFails THEN Thrown("store")
    ELSE LET endpoints == endpointCandidates(args)
             p == paginate(endpoints, argPage(args), argPageSize(args))
         IN  resultResponse(id,
                [endpoints |-> [i \in 1..Len(p.items) |->
                                  [id |-> p.items[i].id, path |-> Field(p.items[i], "path"),
                                   method |-> Field(p.items[i], "method"),
                                   title |-> p.items[i].title, tags |-> p.items[i].tags]],
                 pagination |-> p.pagination])

getSchema(id, args) ==
    IF ~has(args, "schemaName")
    THEN createErrorResponse(id, -32602, <<"Missing required parameter: ", "schemaName">>)
    ELSE IF storeFails THEN Thrown("store")
    ELSE LET documentId == IF args.schemaName = "User" THEN "schema-user"
                           ELSE "<no such key>"
             rows == GetCommand(documentId)
             format == IF has(args, "format") THEN args.format ELSE "typescript"
         IN  IF rows = <<>>
             THEN createErrorResponse(id, -32602, <<"Schema not found: ", args.schemaName>>)
             ELSE LET content == GetObjectCommand(<<"schemas/", documentId, ".", format>>)
                  IN  IF IsThrown(content) THEN content
                      ELSE resultResponse(id, [schema |->
                              [name |-> args.schemaName, format |-> format,
                               content |-> content]])

\* The schemas listSchemas pages: the api items tagged schema
schemaCandidates ==
    SelectSeq(QueryCommand("api"), LAMBDA item : tagsInclude(item, T_schema))

listSchemas(id, args) ==
    IF storeFails THEN Thrown("store")
    ELSE LET schemas == schemaCandidates
             p == paginate(schemas, argPage(args), argPageSize(args))
         IN  resultResponse(id,
                [schemas |-> [i \in 1..Len(p.items) |->
                                [id |-> p.items[i].id, name |-> p.items[i].title,
                                 tags |-> p.items[i].tags]],
                 pagination |-> p.pagination])

\* The S3 key getDocument constructs from the category and the tags.
documentS3Key(item, documentId) ==
    CASE item.category = "guide" -> <<"guides/", documentId, ".md">>
      [] item.category = "api" /\ tagsInclude(item, T_endpoint) ->
            <<"api/endpoints/", documentId, ".md">>
      [] item.category = "api" /\ tagsInclude(item, T_schema) ->
            <<"api/schemas/", documentId, ".md">>
      [] item.category = "api" -> <<"api/", documentId, ".md">>
      [] item.category = "reference" -> <<"reference/", documentId, ".md">>
      [] OTHER -> <<documentId, ".md">>

getDocument(id, args) ==
    IF ~has(args, "documentId")
    THEN createErrorResponse(id, -32602, <<"Missing required parameter: ", "documentId">>)
    ELSE IF storeFails
    THEN createErrorResponse(id, -32603, <<"Failed to get document">>)
    ELSE LET rows == GetCommand(args.documentId)
         IN  IF rows = <<>>
             THEN createErrorResponse(id, -32602,
                                      <<"Document not found: ", args.documentId>>)
             ELSE LET content == GetObjectCommand(documentS3Key(rows[1], args.documentId))
                  IN  IF IsThrown(content)
                      THEN createErrorResponse(id, -32603, <<"Failed to get document">>)
                      ELSE resultResponse(id, [document |->
                              [id |-> args.documentId, title |-> rows[1].title,
                               category |-> rows[1].category, tags |-> rows[1].tags,
                               content |-> content]])

\* The guides listGuides pages: the items of category guide
guideCandidates == QueryCommand("guide")

listGuides(id, args) ==
    IF storeFails THEN Thrown("store")
    ELSE LET guides == guideCandidates
             p == paginate(guides, argPage(args), argPageSize(args))
         IN  resultResponse(id,
                [guides |-> [i \in 1..Len(p.items) |->
                               [id |-> p.items[i].id, title |-> p.items[i].title,
                                tags |-> p.items[i].tags,
                                path |-> Field(p.items[i], "path")]],
                 pagination |-> p.pagination])

\* The resources listResources pages: every item, or those of args.category
resourceCandidates(args) ==
    QueryCommand(IF has(args, "category") THEN args.category ELSE "all")

listResources(id, args) ==
    IF storeFails
    THEN createErrorResponse(id, -32603, <<"Failed to list resources">>)
    ELSE LET resources == resourceCandidates(args)
             p == paginate(resources, argPage(args), argPageSize(args))
         IN  resultResponse(id,
                [resources |-> [i \in 1..Len(p.items) |->
                                  [id |-> p.items[i].id,
                                   uri |-> <<"voltasis://", p.items[i].id>>,
                                   title |-> p.items[i].title,
                                   category |-> p.items[i].category,
                                   tags |-> p.items[i].tags]],
                 pagination |-> p.pagination])

----------------------------------------------------------------------------
\* The method handlers of the Lambda handler

BASELINE_PROTOCOL_VERSION == "2024-11-05"
SERVER_INFO == [name |-> "Voltasis API Documentation Server", version |-> "1.0.0"]

LambdaTools == <<"search_documentation", "get_endpoint_details", "list_endpoints",
                 "get_schema", "list_schemas", "get_document", "list_guides",
                 "list_resources">>
Prompts == <<"create_time_entry", "api_integration_guide", "debug_api_error">>

\* request.params || {}
paramsOf(request) == IF has(request, "params") THEN request.params ELSE EmptyObject
\* args || {}
argsOf(params) == IF has(params, "arguments") THEN params.arguments ELSE EmptyObject

handleInitialize(request) ==
    LET params == paramsOf(request)
        clientProtocolVersion ==
            IF has(params, "protocolVersion") /\ params.protocolVersion # ""
            THEN params.protocolVersion
            ELSE BASELINE_PROTOCOL_VERSION
    IN  resultResponse(Field(request, "id"),
            [protocolVersion |-> clientProtocolVersion, serverInfo |-> SERVER_INFO])

\* tools/list advertising the four tools of the local router only
handleToolsList_localTools(request) ==
    resultResponse(Field(request, "id"),
        [tools |-> <<"search_documentation", "get_endpoint_details", "list_endpoints",
                     "get_schema">>])

handleToolsList(request) ==
    resultResponse(Field(request, "id"), [tools |-> LambdaTools])

handlePromptsList(request) ==
    resultResponse(Field(request, "id"), [prompts |-> Prompts])

\* The api_integration_guide template calls args.integration_type.charAt, which
\* throws without that argument; the other templates only interpolate.
handlePromptsGet(request) ==
    LET id == Field(request, "id")
        params == paramsOf(request)
        name == Field(params, "name")
        args == argsOf(params)
    IN  IF name = UNDEFINED
        THEN createErrorResponse(id, -32602, <<"Missing required parameter: ", "name">>)
        ELSE IF ~(\E i \in 1..Len(Prompts) : Prompts[i] = name)
        THEN createErrorResponse(id, -32602, <<"Unknown prompt: ", name>>)
        ELSE IF name = "api_integration_guide" /\ ~has(args, "integration_type")
        THEN createErrorResponse(id, -32603, <<"Failed to generate prompt">>)
        ELSE resultResponse(id, [messages |-> <<name, args>>])

handleResourcesList(request) ==
    LET id == Field(request, "id")
    IN  IF storeFails
        THEN createErrorResponse(id, -32603, <<"Failed to list resources">>)
        ELSE resultResponse(id, [resources |->
                [i \in 1..Len(store) |->
                    [uri |-> <<"voltasis://", store[i].id>>, name |-> store[i].title,
                     mimeType |-> "text/markdown"]]])

\* uri.replace('voltasis://', '')
uriDocumentId(uri) ==
    CASE uri = "voltasis://guide-authentication" -> "guide-authentication"
      [] uri = "voltasis://api-users-get" -> "api-users-get"
      [] OTHER -> uri

handleResourceRead(request) ==
    LET id == Field(request, "id")
        params == paramsOf(request)
        uri == Field(params, "uri")
    IN  IF uri = UNDEFINED
        THEN createErrorResponse(id, -32602, <<"Missing required parameter: ", "uri">>)
        ELSE IF storeFails
        THEN createErrorResponse(id, -32603, <<"Failed to read resource">>)
        ELSE LET documentId == uriDocumentId(uri)
                 rows == GetCommand(documentId)
             IN  IF rows = <<>>
                 THEN createErrorResponse(id, -32602, <<"Resource not found: ", uri>>)
                 ELSE LET content == GetObjectCommand(<<documentId, ".md">>)
                      IN  IF IsThrown(content)
                          THEN createErrorResponse(id, -32603, <<"Failed to read resource">>)
                          ELSE resultResponse(id, [contents |->
                                  <<[uri |-> uri, mimeType |-> "text/markdown",
                                     text |-> content]>>])

\* The tool function handleToolCall's switch selects for a name
toolResultOf(name, id, args) ==
    CASE name = "search_documentation" -> searchDocumentation(id, args)
      [] name = "get_endpoint_details" -> getEndpointDetails(id, args)
      [] name = "list_endpoints" -> listEndpoints(id, args)
      [] name = "get_schema" -> getSchema(id, args)
      [] name = "list_schemas" -> listSchemas(id, args)
      [] name = "get_document" -> getDocument(id, args)
      [] name = "list_guides" -> listGuides(id, args)
      [] name = "list_resources" -> listResources(id, args)

isLambdaTool(name) == \E i \in 1..Len(LambdaTools) : LambdaTools[i] = name

\* The default branch answering with the code of an unknown method
unknownTool_methodNotFound(id, name) ==
    createErrorResponse(id, -32601, <<"Unknown tool: ", name>>)

\* The default branch of handleToolCall's switch
unknownTool(id, name) == createErrorResponse(id, -32602, <<"Unknown tool: ", name>>)

handleToolCall(request) ==
    LET id == Field(request, "id")
        params == paramsOf(request)
        name == Field(params, "name")
        args == argsOf(params)
    IN  IF name = UNDEFINED
        THEN createErrorResponse(id, -32602, <<"Missing required parameter: ", "name">>)
        ELSE IF ~isLambdaTool(name)
        THEN unknownTool(id, name)
        ELSE LET toolResult == toolResultOf(name, id, args)
             IN  IF IsThrown(toolResult)
                 THEN createErrorResponse(id, -32603, <<"Tool execution failed">>)
                 ELSE IF has(toolResult, "error") THEN toolResult
                 ELSE resultResponse(id, [content |->
                        <<[type |-> "text",
                           text |-> stringifyToolResult(toolResult.result)]>>])

\* The tool functions handleToolCall runs for a request
lambdaToolsRun(request) ==
    LET name == Field(paramsOf(request), "name")
    IN  IF name # UNDEFINED /\ isLambdaTool(name) THEN {name} ELSE {}

\* !messages || !Array.isArray(messages) || messages.length === 0, on a messages
\* value given as [array |-> whether it is an array, length |-> its length]
noMessages(params) ==
    \/ ~has(params, "messages")
    \/ ~params.messages.array
    \/ params.messages.length = 0

SAMPLING_NOT_SUPPORTED == <<"Sampling is not supported by this server">>

\* handleSamplingCreateMessage answering with the response of the commented-out example
handleSamplingCreateMessage_exampleResult(request) ==
    LET id == Field(request, "id")
        params == paramsOf(request)
    IN  IF noMessages(params)
        THEN createErrorResponse(id, -32602, <<"Missing required parameter: ", "messages">>)
        ELSE resultResponse(id, [role |-> "assistant", stopReason |-> "end_turn"])

handleSamplingCreateMessage(request) ==
    LET id == Field(request, "id")
        params == paramsOf(request)
    IN  IF noMessages(params)
        THEN createErrorResponse(id, -32602, <<"Missing required parameter: ", "messages">>)
        ELSE createErrorResponse(id, -32601, SAMPLING_NOT_SUPPORTED)

----------------------------------------------------------------------------
\* lambdaHandler: one HTTP invocation

BuiltinMethods == {"initialize", "tools/list", "prompts/list", "prompts/get",
                   "resources/list", "resources/read", "tools/call",
                   "sampling/createMessage"}

\* The default branch answering with the code of an internal error
methodNotFound_internalError(id, method) ==
    createErrorResponse(id, -32603, <<"Method not found: ", method>>)

\* The default branch of the switch on request.method
methodNotFound(id, method) ==
    createErrorResponse(id, -32601, <<"Method not found: ", method>>)

\* The switch on request.method
lambdaRoute(request) ==
    LET method == Field(request, "method")
    IN  CASE method = "initialize" -> handleInitialize(request)
          [] method = "tools/list" -> handleToolsList(request)
          [] method = "prompts/list" -> handlePromptsList(request)
          [] method = "prompts/get" -> handlePromptsGet(request)
          [] method = "resources/list" -> handleResourcesList(request)
          [] method = "resources/read" -> handleResourceRead(request)
          [] method = "tools/call" -> handleToolCall(request)
          [] method = "sampling/createMessage" -> handleSamplingCreateMessage(request)
          [] OTHER -> methodNotFound(Field(request, "id"), method)

\* The body of the 413 answer
responseTooLarge(id, responseSize) ==
    withId(id, [jsonrpc |-> "2.0",
                error |-> [code |-> -32603, message |-> <<"Response too large">>,
                           data |-> [size |-> responseSize,
                                     maxSize |-> MAX_RESPONSE_SIZE,
                                     hint |-> "Use pagination parameters to reduce response size"]]])

\* The body of the 500 answer of the outer catch
lambdaInternalError(message) ==
    [jsonrpc |-> "2.0", id |-> NULL,
     error |-> [code |-> -32603, message |-> <<"Internal error">>,
                data |-> [message |-> message]]]

\* JSON.parse(event.body || '{}')
parseBody(body) ==
    CASE body.kind = "garbage" -> Thrown("SyntaxError")
      [] body.kind = "empty" -> EmptyObject
      [] body.kind = "null" -> NULL
      [] body.kind = "json" -> body.value

\* lambdaHandler with the size check comparing characters scaled down to KiB
lambdaHandler_sizeInKiB(body) ==
    LET request == parseBody(body)
    IN  IF body.kind = "garbage"
        THEN [statusCode |-> 500,
              body |-> stringifyResponse(lambdaInternalError("SyntaxError"))]
        ELSE IF body.kind = "null"
        THEN [statusCode |-> 500,
              body |-> stringifyResponse(lambdaInternalError("TypeError"))]
        ELSE LET response == lambdaRoute(request)
                 responseBody == stringifyResponse(response)
                 responseSize == byteLength(responseBody)
             IN  IF responseSize \div 1024 > MAX_RESPONSE_SIZE
                 THEN [statusCode |-> 413,
                       body |-> stringifyResponse(
                                  responseTooLarge(Field(request, "id"), responseSize))]
                 ELSE [statusCode |-> 200, body |-> responseBody]

\* The handler from the parse of event.body to the 200, 413 or 500 result
lambdaHandler(body) ==
    LET request == parseBody(body)
    IN  IF body.kind = "garbage"
        THEN [statusCode |-> 500,
              body |-> stringifyResponse(lambdaInternalError("SyntaxError"))]
        ELSE IF body.kind = "null"
        THEN [statusCode |-> 500,
              body |-> stringifyResponse(lambdaInternalError("TypeError"))]
        ELSE LET response == lambdaRoute(request)
                 responseBody == stringifyResponse(response)
                 responseSize == byteLength(responseBody)
             IN  IF responseSize > MAX_RESPONSE_SIZE
                 THEN [statusCode |-> 413,
                       body |-> stringifyResponse(
                                  responseTooLarge(Field(request, "id"), responseSize))]
                 ELSE [statusCode |-> 200, body |-> responseBody]

----------------------------------------------------------------------------
\* DocumentManager of the local server.  The index file lists the documents by
\* category (api, guides, reference); a missing index file gives an empty index,
\* and a document whose file cannot be read is not loaded.

\* index.categories[key], none for a key the index does not have
indexCategory(key) ==
    CASE key = "api" -> SelectSeq(store, LAMBDA d : d.category = "api")
      [] key = "guides" -> SelectSeq(store, LAMBDA d : d.category = "guide")
      [] key = "reference" -> SelectSeq(store, LAMBDA d : d.category = "reference")

indexKeys == {"api", "guides", "reference"}

\* [...categories.api, ...categories.guides, ...categories.reference]
allDocs ==
    IF storeFails THEN <<>>
    ELSE indexCategory("api") \o indexCategory("guides") \o indexCategory("reference")

\* this.documents after loadDocuments
loadedDocuments == IF blobBytes = NO_BLOB THEN <<>> ELSE allDocs

\* The relative file path of a document reference
refPath(doc) ==
    CASE doc.id = "guide-authentication" -> "guides/authentication.md"
      [] doc.id = "api-users-get" -> "api/endpoints/users-get.md"
      [] doc.id = "api-users-post" -> "api/endpoints/users-post.md"
      [] doc.id = "reference-users" -> "reference/users.md"
      [] doc.id = "schema-user" -> "api/schemas/user.md"
      [] doc.id = "api-api-v1-users-get" -> "api/endpoints/api-api-v1-users-get.md"

\* doc.path.includes(searchPath) on the paths and search paths of the model
pathIncludes(path, searchPath) ==
    \/ path = searchPath
    \/ searchPath = "guides/authentication" /\ path = "guides/authentication.md"

\* DocumentManager.searchDocuments, called with a query and a category: Value(docs),
\* or Thrown(..) for the TypeError of an undefined query or category entry
searchDocuments(args) ==
    IF ~has(args, "query") THEN Thrown("TypeError: query.toLowerCase")
    ELSE LET category == IF has(args, "category") THEN args.category ELSE "all"
             queryLower == toLowerCase(args.query)
             Matches(doc) ==
                \/ includes(toLowerCase(doc.title), queryLower)
                \/ \E i \in 1..Len(doc.tags) : includes(toLowerCase(doc.tags[i]), queryLower)
         IN  IF category # "all" /\ category \notin indexKeys
             THEN Thrown("TypeError: docs is not iterable")
             ELSE IF category # "all"
             THEN Value(SelectSeq(IF storeFails THEN <<>> ELSE indexCategory(category),
                                  Matches))
             ELSE Value(SelectSeq(allDocs, Matches))

\* DocumentManager.getEndpointByPath
getEndpointByPath(endpoint, method) ==
    SelectSeq(loadedDocuments, LAMBDA doc :
        /\ has(doc, "path")
        /\ doc.path = endpoint
        /\ (method = UNDEFINED \/ doc.method = method))

\* DocumentManager.listEndpoints
DocumentManager_listEndpoints(args) ==
    SelectSeq(loadedDocuments, LAMBDA doc :
        /\ has(doc, "path")
        /\ doc.category = "api"
        /\ (has(args, "tag") => tagsInclude(doc, args.tag))
        /\ (has(args, "category") => doc.category = args.category))

\* DocumentManager.getResourceContent: <<content>>, or <<>> for null.  A document
\* that is loaded is not looked up by path, and the function then returns null.
getResourceContent(uri, isInitialized) ==
    LET docId == uriDocumentId(uri)
        documents == IF isInitialized THEN loadedDocuments ELSE <<>>
        index == IF isInitialized THEN allDocs ELSE <<>>
        doc == SelectSeq(documents, LAMBDA d : d.id = docId)
        docRef == SelectSeq(index, LAMBDA d : d.id = docId \/ pathIncludes(refPath(d), docId))
    IN  IF doc # <<>> THEN <<>>
        ELSE IF docRef = <<>> THEN <<>>
        ELSE IF blobBytes = NO_BLOB THEN <<>>
        ELSE <<[blob |-> refPath(docRef[1]), bytes |-> blobBytes]>>

----------------------------------------------------------------------------
\* MCPProtocolHandler of the local server.  A handler gives Value(v), throws an
\* MCPProtocolError (ProtocolError) or throws something else (Thrown).


LocalTools == <<"search_documentation", "get_endpoint_details", "list_endpoints",
                "get_schema">>

MCPProtocolHandler_handleInitialize(request) ==
    IF ~has(request, "params") THEN Thrown("TypeError: request.params.clientInfo")
    ELSE Value([protocolVersion |->
                    IF /\ has(request.params, "protocolVersion")
                       /\ request.params.protocolVersion # ""
                    THEN request.params.protocolVersion ELSE BASELINE_PROTOCOL_VERSION,
                serverInfo |-> SERVER_INFO])

MCPProtocolHandler_handleToolsList(request) == Value([tools |-> LocalTools])

MCPProtocolHandler_handlePromptsList(request) == Value([prompts |-> Prompts])

MCPProtocolHandler_handlePromptsGet(request) ==
    LET params == paramsOf(request)
        name == Field(params, "name")
    IN  IF name = UNDEFINED
        THEN ProtocolError(-32602, <<"Missing required parameter: ", "name">>)
        ELSE IF ~(\E i \in 1..Len(Prompts) : Prompts[i] = name)
        THEN ProtocolError(-32602, <<"Unknown prompt: ", name>>)
        ELSE Value([messages |-> <<name, argsOf(params)>>])

MCPProtocolHandler_handleResourcesList(request) ==
    Value([resources |->
            [i \in 1..Len(allDocs) |->
                [uri |-> <<"voltasis://", allDocs[i].id>>, name |-> allDocs[i].title,
                 mimeType |-> "text/markdown"]]])

MCPProtocolHandler_handleResourceRead(request, isInitialized) ==
    IF ~has(request, "params") THEN Thrown("TypeError: request.params")
    ELSE IF ~has(request.params, "uri") THEN Thrown("TypeError: uri.replace")
    ELSE LET uri == request.params.uri
             content == getResourceContent(uri, isInitialized)
         IN  IF content = <<>>
             THEN ProtocolError(-32602, <<"Resource not found: ", uri>>)
             ELSE Value([contents |-> <<[uri |-> uri, mimeType |-> "text/markdown",
                                         text |-> content[1]]>>])

MCPProtocolHandler_searchDocumentation(params) ==
    IF ~has(params, "arguments") THEN Thrown("TypeError: args is undefined")
    ELSE LET searched == searchDocuments(params.arguments)
         IN  IF IsThrown(searched) THEN searched
             ELSE LET searchResults == searched.value
                  IN  Value([results |->
                        [i \in 1..Len(searchResults) |->
                            [id |-> searchResults[i].id, title |-> searchResults[i].title,
                             uri |-> <<"voltasis://", searchResults[i].id>>,
                             tags |-> searchResults[i].tags, relevance |-> 1]]])

MCPProtocolHandler_getEndpointDetails(params) ==
    IF ~has(params, "arguments") THEN Thrown("TypeError: args is undefined")
    ELSE LET endpoint == Field(params.arguments, "endpoint")
             found == getEndpointByPath(endpoint, Field(params.arguments, "method"))
         IN  IF found = <<>>
             THEN ProtocolError(-32602, <<"Endpoint not found: ", endpoint>>)
             ELSE Value([endpoint |-> found[1]])

MCPProtocolHandler_listEndpoints(params) ==
    IF ~has(params, "arguments") THEN Thrown("TypeError: args is undefined")
    ELSE LET endpoints == DocumentManager_listEndpoints(params.arguments)
         IN  Value([endpoints |->
                [i \in 1..Len(endpoints) |->
                    [id |-> endpoints[i].id, path |-> endpoints[i].path,
                     method |-> endpoints[i].method, title |-> endpoints[i].title,
                     tags |-> endpoints[i].tags]]])

MCPProtocolHandler_getSchema(params) ==
    IF ~has(params, "arguments") THEN Thrown("TypeError: args is undefined")
    ELSE Value([schema |->
            [name |-> Field(params.arguments, "schemaName"),
             format |-> IF has(params.arguments, "format") THEN params.arguments.format
                        ELSE "typescript",
             content |-> [blob |-> "placeholder", bytes |-> ItemBytes]]])

isLocalTool(name) == \E i \in 1..Len(LocalTools) : LocalTools[i] = name

MCPProtocolHandler_handleToolCall(request) ==
    IF ~has(request, "params") THEN Thrown("TypeError: request.params")
    ELSE LET params == request.params
             name == Field(params, "name")
         IN  CASE name = "search_documentation" -> MCPProtocolHandler_searchDocumentation(params)
               [] name = "get_endpoint_details" -> MCPProtocolHandler_getEndpointDetails(params)
               [] name = "list_endpoints" -> MCPProtocolHandler_listEndpoints(params)
               [] name = "get_schema" -> MCPProtocolHandler_getSchema(params)
               [] OTHER -> ProtocolError(-32602, <<"Unknown tool: ", name>>)

\* The tool functions handleToolCall runs for a request
localToolsRun(request) ==
    IF ~has(request, "params") THEN {}
    ELSE LET name == Field(request.params, "name")
         IN  IF isLocalTool(name) THEN {name} ELSE {}

MCPProtocolHandler_handleSamplingCreateMessage(request) ==
    LET params == paramsOf(request)
    IN  IF noMessages(params)
        THEN ProtocolError(-32602, <<"Missing required parameter: ", "messages">>)
        ELSE ProtocolError(-32601, SAMPLING_NOT_SUPPORTED)

\* The methods whose handler awaits this.initialize()
initializingMethods == {"initialize", "resources/list", "tools/call"}

MCPProtocolHandler_createResponse(id, result) == resultResponse(id, result)

\* createErrorResponse answering with an empty result beside the error
MCPProtocolHandler_createErrorResponse_withResult(id, error) ==
    withId(id, [jsonrpc |-> "2.0", result |-> EmptyObject, error |-> error])

MCPProtocolHandler_createErrorResponse(id, error) ==
    withId(id, [jsonrpc |-> "2.0", error |-> error])

\* The switch of handleRequest, with the handler's outcome
localRoute(request, isInitialized) ==
    LET method == Field(request, "method")
    IN  CASE method = "initialize" -> MCPProtocolHandler_handleInitialize(request)
          [] method = "tools/list" -> MCPProtocolHandler_handleToolsList(request)
          [] method = "prompts/list" -> MCPProtocolHandler_handlePromptsList(request)
          [] method = "prompts/get" -> MCPProtocolHandler_handlePromptsGet(request)
          [] method = "resources/list" -> MCPProtocolHandler_handleResourcesList(request)
          [] method = "resources/read" ->
                MCPProtocolHandler_handleResourceRead(request, isInitialized)
          [] method = "tools/call" -> MCPProtocolHandler_handleToolCall(request)
          [] method = "sampling/createMessage" ->
                MCPProtocolHandler_handleSamplingCreateMessage(request)
          [] OTHER -> ProtocolError(-32601, <<"Method not found: ", method>>)

\* MCPProtocolHandler.handleRequest: <<>> for the null a notification gets, else
\* <<envelope>>
handleRequest(request, isInitialized) ==
    LET id == Field(request, "id")
        method == Field(request, "method")
    IN  IF method = UNDEFINED
        THEN <<MCPProtocolHandler_createErrorResponse(id,
                [code |-> -32603, message |-> <<"Internal error">>,
                 data |-> [message |-> "TypeError: request.method.startsWith"]])>>
        ELSE IF startsWithNotifications(method) THEN <<>>
        ELSE LET outcome == localRoute(request, isInitialized)
             IN  IF has(outcome, "value")
                 THEN <<MCPProtocolHandler_createResponse(id, outcome.value)>>
                 ELSE IF has(outcome, "protocolError")
                 THEN <<MCPProtocolHandler_createErrorResponse(id, outcome.protocolError)>>
                 ELSE <<MCPProtocolHandler_createErrorResponse(id,
                        [code |-> -32603, message |-> <<"Internal error">>,
                         data |-> [message |-> outcome.thrown]])>>

\* Whether handling the request reaches `await this.initialize()`
reachesInitialize(request) ==
    LET method == Field(request, "method")
    IN  \/ method = "resources/list"
        \/ method \in {"initialize", "tools/call"} /\ has(request, "params")

\* The Parse error line of the local server's catch
localParseError ==
    [jsonrpc |-> "2.0", id |-> NULL,
     error |-> [code |-> -32700, message |-> <<"Parse error">>]]

----------------------------------------------------------------------------
\* The inputs a client sends

RouterIds == {"req-1", "req-2"}

MaxPage == 2          \* page arguments are -1..MaxPage
PageArgs == (-1)..MaxPage
PageSizeArgs == {-1, 0, 1, 2, 100, 101}

MaxMessages == 2      \* a messages value has 0..MaxMessages items or characters

Queries == {<<"u", "s", "e", "r">>, <<"A", "U">>, <<"s", " ", "u">>, <<"z">>}

pagingArgs ==
    {EmptyObject}
    \cup {[page |-> pg] : pg \in PageArgs}
    \cup {[pageSize |-> ps] : ps \in PageSizeArgs}
    \cup {[page |-> pg, pageSize |-> ps] : pg \in PageArgs, ps \in PageSizeArgs}

\* params.arguments of a tools/call, by tool name
toolArguments(name) ==
    CASE name = "search_documentation" ->
            {EmptyObject, [category |-> "api"]}
            \cup {[query |-> q] : q \in Queries \cup {<<>>}}
            \cup {[query |-> q, category |-> c] :
                    q \in Queries, c \in {"all", "api", "guide", "reference"}}
      [] name = "get_endpoint_details" ->
            {EmptyObject}
            \cup {[endpoint |-> e] : e \in {"/api/v1/users", "users"}}
            \cup {[endpoint |-> e, method |-> m] :
                    e \in {"/api/v1/users", "users"}, m \in {"GET", "POST"}}
      [] name = "list_endpoints" ->
            pagingArgs \cup {[tag |-> T_users], [tag |-> T_users, pageSize |-> 1]}
      [] name = "get_schema" ->
            {EmptyObject, [schemaName |-> "User"], [schemaName |-> "Order"],
             [schemaName |-> "User", format |-> "json"]}
      [] name = "list_schemas" -> pagingArgs
      [] name = "get_document" ->
            {EmptyObject}
            \cup {[documentId |-> d] :
                    d \in {"guide-authentication", "api-users-get", "schema-user", "nope"}}
      [] name = "list_guides" -> pagingArgs
      [] name = "list_resources" ->
            pagingArgs \cup {[category |-> "guide"], [category |-> "api", pageSize |-> 1]}
      [] OTHER -> {EmptyObject}

ToolNames == {LambdaTools[i] : i \in 1..Len(LambdaTools)} \cup {"no_such_tool"}

\* The params a client sends with tools/call
toolCallParams ==
    {[name |-> n] : n \in ToolNames}
    \cup UNION {{[name |-> n, arguments |-> a] : a \in toolArguments(n)} : n \in ToolNames}
    \cup {EmptyObject, [arguments |-> EmptyObject]}

promptParams ==
    {EmptyObject, [name |-> "create_time_entry"], [name |-> "api_integration_guide"],
     [name |-> "no_such_prompt"],
     [name |-> "api_integration_guide", arguments |-> [integration_type |-> "webhook"]]}

resourceReadParams ==
    {EmptyObject}
    \cup {[uri |-> u] : u \in {"voltasis://guide-authentication", "voltasis://api-users-get",
                              "guides/authentication", "voltasis://nope"}}

ClientMethods == BuiltinMethods \cup {"notifications/initialized",
                                      "notifications/cancelled", "ping", "foo/bar"}

\* The request objects: with or without id, method and params
withParams(base, params) ==
    [k \in DOMAIN base \cup {"params"} |-> IF k = "params" THEN params ELSE base[k]]

requestHeads ==
    {[jsonrpc |-> "2.0", id |-> i, method |-> m] : i \in RouterIds, m \in ClientMethods}
    \cup {[jsonrpc |-> "2.0", method |-> m] :
            m \in {"notifications/initialized", "tools/list", "foo/bar"}}
    \cup {[jsonrpc |-> "2.0", id |-> i] : i \in RouterIds}
    \cup {[id |-> i, method |-> "tools/list"] : i \in RouterIds}

paramsFor(head) ==
    LET method == Field(head, "method")
    IN  CASE method = "tools/call" -> toolCallParams
          [] method = "prompts/get" -> promptParams
          [] method = "resources/read" -> resourceReadParams
          [] method = "initialize" ->
                {EmptyObject, [protocolVersion |-> "2025-03-26"],
                 [protocolVersion |-> "0.0-unknown"], [protocolVersion |-> ""]}
          [] method = "sampling/createMessage" ->
                {EmptyObject}
                \cup {[messages |-> [array |-> a, length |-> n]] :
                        a \in BOOLEAN, n \in 0..MaxMessages}
          [] OTHER -> {}

Requests ==
    requestHeads
    \cup UNION {{withParams(head, params) : params \in paramsFor(head)} :
                  head \in requestHeads}

\* A stdin line or an HTTP body: no JSON, the empty text, the JSON null, a request
RawInputs ==
    {[kind |-> "garbage"], [kind |-> "empty"], [kind |-> "null"]}
    \cup {[kind |-> "json", value |-> r] : r \in Requests}

----------------------------------------------------------------------------
\* The two front ends and the client

\* The stores a run starts with; a failing document store is tried with small blobs.
StoreInit ==
    /\ store \in Stores
    /\ blobBytes \in BlobSizes
    /\ storeFails \in BOOLEAN
    /\ storeFails => blobBytes = 2 * ItemBytes
    /\ WritersIdle
    /\ LoaderIdle

RouterIdle ==
    /\ transport = "none"
    /\ input = [kind |-> "none"]
    /\ returned = <<>>
    /\ written = <<>>
    /\ toolsRun = {}

BridgeIdle ==
    /\ bridgeKind = "none"
    /\ linesRead = 0
    /\ received = <<>>
    /\ pending = {}
    /\ finished = {}
    /\ responseQueue = EmptyObject
    /\ lastSentId = -1
    /\ stdout = <<>>

\* rl.on('line') of the local server, with the console.log of its response
LocalLine(line) ==
    /\ transport = "none"
    /\ transport' = "local"
    /\ input' = line
    /\ IF line.kind \in {"garbage", "empty", "null"}
       THEN /\ returned' = <<>>
            /\ written' = <<stringifyResponse(localParseError)>>
            /\ toolsRun' = {}
            /\ UNCHANGED initialized
       ELSE LET request == line.value
                nowInitialized == initialized \/ reachesInitialize(request)
                response == handleRequest(request, nowInitialized)
            IN  /\ returned' = response
                /\ written' = <<IF response = <<>> THEN stringifyNull
                                ELSE stringifyResponse(response[1])>>
                /\ toolsRun' = IF Field(request, "method") = "tools/call"
                               THEN localToolsRun(request) ELSE {}
                /\ initialized' = nowInitialized
    /\ UNCHANGED <<bridgeVars, storeVars, loaderVars, pagingVars, processVars>>

\* An invocation of the Lambda handler that removes the first row it read
lambdaInvocation_consumingRow(body) ==
    /\ transport = "none"
    /\ transport' = "http"
    /\ input' = body
    /\ LET result == lambdaHandler(body)
       IN  /\ returned' = <<result>>
           /\ written' = <<result>>
    /\ toolsRun' = {}
    /\ store' = IF store = <<>> THEN store ELSE Tail(store)
    /\ UNCHANGED <<initialized, bridgeVars, blobBytes, storeFails, blobKeys,
                   metadataRows, loaderVars, processVars>>

\* One invocation of the Lambda handler
lambdaInvocation(body) ==
    /\ transport = "none"
    /\ transport' = "http"
    /\ input' = body
    /\ LET result == lambdaHandler(body)
       IN  /\ returned' = <<result>>
           /\ written' = <<result>>
    /\ toolsRun' = IF body.kind = "json" /\ Field(body.value, "method") = "tools/call"
                   THEN lambdaToolsRun(body.value) ELSE {}
    /\ UNCHANGED <<initialized, bridgeVars, storeVars, loaderVars, processVars>>

\* The gateway invokes the Lambda handler with the body of a POST
LambdaInvoke(body) ==
    /\ lambdaInvocation(body)
    /\ UNCHANGED pagingVars

\* The client takes the answer off the channel and may send its next request
ClientReads ==
    /\ transport # "none"
    /\ transport' = "none"
    /\ input' = [kind |-> "none"]
    /\ returned' = <<>>
    /\ written' = <<>>
    /\ toolsRun' = {}
    /\ UNCHANGED <<initialized, bridgeVars, storeVars, loaderVars, pagingVars, processVars>>

Init ==
    /\ ProcessRunning
    /\ StoreInit
    /\ BridgeIdle
    /\ RouterIdle
    /\ PagingIdle
    /\ initialized = FALSE

Next ==
    \/ \E line \in RawInputs : LocalLine(line)
    \/ \E body \in RawInputs : LambdaInvoke(body)
    \/ ClientReads

Spec == Init /\ [][Next]_vars

----------------------------------------------------------------------------
\* A client that pages through a list tool of the Lambda handler

MaxPageSize == 3      \* page sizes are 1..MaxPageSize
PagingId == "req-1"

ListTools == {"list_endpoints", "list_schemas", "list_guides", "list_resources"}

\* The arguments a paging client keeps fixed: the page size, and a filter
listArguments(tool) ==
    {[pageSize |-> ps] : ps \in 1..MaxPageSize}
    \cup (IF tool = "list_endpoints"
          THEN {[tag |-> T_users, pageSize |-> ps] : ps \in 1..MaxPageSize}
          ELSE {})
    \cup (IF tool = "list_resources"
          THEN {[category |-> c, pageSize |-> ps] :
                    c \in {"api", "guide"}, ps \in 1..MaxPageSize}
          ELSE {})

withPage(args, page) ==
    [k \in DOMAIN args \cup {"page"} |-> IF k = "page" THEN page ELSE args[k]]

\* The tools/call body for one page
pageRequest(tool, args, page) ==
    [kind |-> "json",
     value |-> [jsonrpc |-> "2.0", id |-> PagingId, method |-> "tools/call",
                params |-> [name |-> tool, arguments |-> withPage(args, page)]]]

\* JSON.parse(result.content[0].text) of a 200 body
parsedToolResult(result) == result.body.json.result.content[1].text.json

PagingStart ==
    /\ ProcessRunning
    /\ store \in Stores
    /\ blobBytes = NO_BLOB
    /\ storeFails = FALSE
    /\ WritersIdle
    /\ LoaderIdle
    /\ BridgeIdle
    /\ RouterIdle
    /\ initialized = FALSE
    /\ listTool \in ListTools
    /\ listArgs \in listArguments(listTool)
    /\ pages = <<>>

\* The client asks for the next page while the list has more
FetchPage ==
    /\ IF pages = <<>> THEN TRUE ELSE pages[Len(pages)].pagination.hasMore
    /\ LET body == pageRequest(listTool, listArgs, Len(pages))
       IN  /\ lambdaInvocation(body)
           /\ pages' = Append(pages, parsedToolResult(lambdaHandler(body)))
    /\ UNCHANGED <<listTool, listArgs>>

PagingNext ==
    \/ FetchPage
    \/ ClientReads

SpecPaging == PagingStart /\ [][PagingNext]_vars

----------------------------------------------------------------------------
\* Claims about the routers and their front ends

Handled == transport # "none"
HandledRequest == Handled /\ input.kind = "json"
TheRequest == input.value
IsNotification(request) ==
    has(request, "method") /\ startsWithNotifications(request.method)

\* The text written to the channel: a stdout line, or the body of the HTTP result
WrittenText == IF transport = "http" THEN written[1].body ELSE written[1]
\* The envelope that text holds
WrittenEnvelope == WrittenText.json
WroteEnvelope == Len(written) = 1 /\ has(WrittenText, "json")

IsToolCall(request) == Field(request, "method") = "tools/call"

\* C3: for a request whose method begins with notifications/ the router returns
\* no value and the transport writes nothing to its response channel.
C3_NotificationsGetNoResponse ==
    (HandledRequest /\ IsNotification(TheRequest)) =>
        returned = <<>> /\ written = <<>>

\* C4: a non-notification request object gets exactly one response, with
\* jsonrpc "2.0", the request's id, and a result or an error; a null id is
\* written only when no request object was obtained.
C4_OneResponseWithRequestId ==
    /\ (HandledRequest /\ ~IsNotification(TheRequest)) =>
          /\ WroteEnvelope
          /\ WrittenEnvelope.jsonrpc = "2.0"
          /\ has(TheRequest, "id") =>
                has(WrittenEnvelope, "id") /\ WrittenEnvelope.id = TheRequest.id
          /\ ~has(TheRequest, "id") => ~has(WrittenEnvelope, "id")
          /\ has(WrittenEnvelope, "result") # has(WrittenEnvelope, "error")
    /\ (Handled /\ WroteEnvelope /\ Field(WrittenEnvelope, "id") = NULL) =>
          \/ input.kind \in {"garbage", "null"}
          \/ input.kind = "empty" /\ transport = "local"

C4_Witness ==
    /\ HandledRequest
    /\ transport = "http"
    /\ Field(TheRequest, "id") = "req-2"
    /\ IsToolCall(TheRequest)
    /\ WroteEnvelope
    /\ has(WrittenEnvelope, "error")
    /\ WrittenEnvelope.id = "req-2"

\* C5: an HTTP response whose serialized body is larger than the ceiling is
\* answered with the size-limit error (actual size, ceiling, hint, request id)
\* and not with the body; a body at or below the ceiling is returned unchanged.
C5_SizeGuard ==
    (Handled /\ transport = "http" /\ input.kind \in {"json", "empty"}) =>
        LET request == parseBody(input)
            response == lambdaRoute(request)
            size == responseBytes(response)
        IN  IF size > MAX_RESPONSE_SIZE
            THEN /\ WroteEnvelope
                 /\ ~has(WrittenEnvelope, "result")
                 /\ WrittenEnvelope # response
                 /\ WrittenEnvelope.error.data.size = size
                 /\ WrittenEnvelope.error.data.maxSize = MAX_RESPONSE_SIZE
                 /\ has(WrittenEnvelope.error.data, "hint")
                 /\ Field(WrittenEnvelope, "id") = Field(request, "id")
            ELSE /\ WroteEnvelope
                 /\ WrittenEnvelope = response
                 /\ byteLength(WrittenText) = size

C5_Witness ==
    /\ HandledRequest
    /\ transport = "http"
    /\ written[1].statusCode = 413
    /\ WrittenEnvelope.error.data.size = MAX_RESPONSE_SIZE + 1

\* C8 as stated: a request whose method is not a built-in method gets an error
\* response with code -32601 and no result.
C8_UnknownMethodIsMethodNotFound ==
    (HandledRequest /\ Field(TheRequest, "method") \notin BuiltinMethods) =>
        /\ WroteEnvelope
        /\ has(WrittenEnvelope, "error")
        /\ WrittenEnvelope.error.code = -32601
        /\ ~has(WrittenEnvelope, "result")

\* C8 amended: a request whose method is a string that neither begins with
\* notifications/ nor is a built-in method gets an error response with code
\* -32601 and no result.
C8_UnknownNonNotificationMethodIsMethodNotFound ==
    (/\ HandledRequest
     /\ has(TheRequest, "method")
     /\ ~startsWithNotifications(TheRequest.method)
     /\ TheRequest.method \notin BuiltinMethods) =>
        /\ WroteEnvelope
        /\ has(WrittenEnvelope, "error")
        /\ WrittenEnvelope.error.code = -32601
        /\ ~has(WrittenEnvelope, "result")

C8_Witness ==
    /\ HandledRequest
    /\ transport = "local"
    /\ Field(TheRequest, "method") = "foo/bar"
    /\ WroteEnvelope
    /\ WrittenEnvelope.error.code = -32601

\* The names the router that handled the request dispatches
DispatchTable ==
    IF transport = "http" THEN {LambdaTools[i] : i \in 1..Len(LambdaTools)}
    ELSE {LocalTools[i] : i \in 1..Len(LocalTools)}

\* C9: a tools/call whose params.name is not in the dispatch table gets an
\* error response with code -32602 (Unknown tool), and no tool is executed.
C9_UnknownToolIsInvalidParams ==
    (/\ HandledRequest
     /\ IsToolCall(TheRequest)
     /\ has(TheRequest, "params")
     /\ has(TheRequest.params, "name")
     /\ TheRequest.params.name \notin DispatchTable) =>
        /\ WroteEnvelope
        /\ has(WrittenEnvelope, "error")
        /\ ~has(WrittenEnvelope, "result")
        /\ WrittenEnvelope.error.code = -32602
        /\ WrittenEnvelope.error.message = <<"Unknown tool: ", TheRequest.params.name>>
        /\ toolsRun = {}

C9_Witness ==
    /\ HandledRequest
    /\ transport = "http"
    /\ IsToolCall(TheRequest)
    /\ has(TheRequest, "params")
    /\ Field(TheRequest.params, "name") = "no_such_tool"
    /\ has(TheRequest.params, "arguments")
    /\ WrittenEnvelope.error.code = -32602

\* C10: a tools/call of search_documentation without a query argument gets an
\* error response with code -32602 whose message names the field query.
C10_MissingQueryIsInvalidParams ==
    (/\ HandledRequest
     /\ IsToolCall(TheRequest)
     /\ has(TheRequest, "params")
     /\ Field(TheRequest.params, "name") = "search_documentation"
     /\ ~has(argsOf(TheRequest.params), "query")) =>
        /\ WroteEnvelope
        /\ has(WrittenEnvelope, "error")
        /\ WrittenEnvelope.error.code = -32602
        /\ \E i \in 1..Len(WrittenEnvelope.error.message) :
              WrittenEnvelope.error.message[i] = "query"

\* The structured result a successful tools/call response carries as text
WrittenToolResult == WrittenEnvelope.result.content[1].text.json

\* C7: every list tool uses page 0 and pageSize 50 by default, and the page
\* size it uses and reports lies in 1..100 for every requested pageSize.
C7_PageSizeClamped ==
    (/\ HandledRequest
     /\ transport = "http"
     /\ IsToolCall(TheRequest)
     /\ Field(paramsOf(TheRequest), "name") \in ListTools
     /\ WroteEnvelope
     /\ has(WrittenEnvelope, "result")) =>
        LET args == argsOf(TheRequest.params)
            pagination == WrittenToolResult.pagination
        IN  /\ pagination.pageSize \in 1..100
            /\ ~has(args, "pageSize") => pagination.pageSize = 50
            /\ ~has(args, "page") => pagination.page = 0

----------------------------------------------------------------------------
\* Claims about pagination

\* The full candidate list of the tool the client pages through
Candidates ==
    CASE listTool = "list_endpoints" -> endpointCandidates(listArgs)
      [] listTool = "list_schemas" -> schemaCandidates
      [] listTool = "list_guides" -> guideCandidates
      [] listTool = "list_resources" -> resourceCandidates(listArgs)

\* The items of one collected page
PageItems(result) ==
    CASE listTool = "list_endpoints" -> result.endpoints
      [] listTool = "list_schemas" -> result.schemas
      [] listTool = "list_guides" -> result.guides
      [] listTool = "list_resources" -> result.resources

Ids(items) == [i \in 1..Len(items) |-> items[i].id]

RECURSIVE Concatenation(_)
Concatenation(collected) ==
    IF collected = <<>> THEN <<>>
    ELSE Concatenation(SubSeq(collected, 1, Len(collected) - 1))
         \o Ids(PageItems(collected[Len(collected)]))

\* ceil(n / p) for p >= 1
Ceiling(n, p) == CHOOSE k \in 0..n : k * p >= n /\ (k = 0 \/ (k - 1) * p < n)

----------------------------------------------------------------------------
\* Claims about the stdio bridges

\* Position of the request with this id in the arrival order.
ArrivalIndex(id) == CHOOSE i \in 1..Len(received) : received[i] = id

\* C1: responses are written to stdout in the order their requests were
\* received, whatever the order in which the outbound calls complete.
C1_ResponsesInArrivalOrder ==
    \A i, j \in 1..Len(stdout) :
        i < j => ArrivalIndex(stdout[i].id) < ArrivalIndex(stdout[j].id)

\* C2: once the input is read to its end and no outbound call is outstanding,
\* every request whose call finished has a response line with its id on stdout.
C2_EveryFinishedRequestAnswered ==
    (linesRead = MaxLines /\ pending = {}) =>
        \A id \in finished : \E i \in 1..Len(stdout) : stdout[i].id = id

----------------------------------------------------------------------------
\* Claims about tool results, errors and the HTTP status

\* C11: every successful tools/call response has result = {content: [{type:
\* "text", text: T}]} with T the JSON serialization of the tool's structured
\* result; the structured result is never placed directly in result.
C11_ToolResultIsContentBlock ==
    (HandledRequest /\ IsToolCall(TheRequest) /\ WroteEnvelope
        /\ has(WrittenEnvelope, "result")) =>
        LET result == WrittenEnvelope.result
        IN  /\ DOMAIN result = {"content"}
            /\ Len(result.content) = 1
            /\ result.content[1].type = "text"
            /\ has(result.content[1].text, "json")

\* The request handled by the Lambda handler looks up a row that is absent, or
\* a blob that is absent behind its row, in stores that answer
LookupMisses ==
    /\ HandledRequest
    /\ transport = "http"
    /\ ~storeFails
    /\ LET method == Field(TheRequest, "method")
           params == paramsOf(TheRequest)
           name == Field(params, "name")
           args == argsOf(params)
           Absent(documentId) == GetCommand(documentId) = <<>> \/ blobBytes = NO_BLOB
       IN  \/ /\ method = "resources/read"
              /\ has(params, "uri")
              /\ Absent(uriDocumentId(params.uri))
           \/ /\ method = "tools/call"
              /\ name = "get_document"
              /\ has(args, "documentId")
              /\ Absent(args.documentId)
           \/ /\ method = "tools/call"
              /\ name = "get_schema"
              /\ has(args, "schemaName")
              /\ (args.schemaName # "User" \/ Absent("schema-user"))
           \/ /\ method = "tools/call"
              /\ name = "get_endpoint_details"
              /\ has(args, "endpoint")
              /\ GetCommand(endpointDocumentId(args.endpoint, Field(args, "method"))) = <<>>

\* C12: a tool call or resources/read that misses in the Document Store or in
\* the Blob Store (row or blob absent) is answered with error code -32602;
\* -32603 is kept for store and network failures.
C12_LookupMissIsInvalidParams ==
    LookupMisses =>
        /\ WroteEnvelope
        /\ has(WrittenEnvelope, "error")
        /\ WrittenEnvelope.error.code = -32602

\* The Lambda handler queries the failing Document Store for the request
StoreFailureOccurs ==
    /\ HandledRequest
    /\ transport = "http"
    /\ storeFails
    /\ \/ Field(TheRequest, "method") = "resources/list"
       \/ /\ IsToolCall(TheRequest)
          /\ Field(paramsOf(TheRequest), "name") \in ListTools

\* C13: when a store or network failure occurs while a request is handled, the
\* response is an error with code -32603 whose data holds the failure message.
C13_StoreFailureIsInternalErrorWithData ==
    StoreFailureOccurs =>
        /\ WroteEnvelope
        /\ has(WrittenEnvelope, "error")
        /\ WrittenEnvelope.error.code = -32603
        /\ has(WrittenEnvelope.error, "data")

\* The input is no well-formed request envelope: no JSON object, or an object
\* without jsonrpc or without method
MalformedEnvelope ==
    \/ input.kind \in {"garbage", "empty", "null"}
    \/ /\ input.kind = "json"
       /\ (~has(TheRequest, "jsonrpc") \/ ~has(TheRequest, "method"))

\* C14: a malformed request envelope is answered with an error response whose
\* code is parse error (-32700) or invalid request (-32600): it is not dropped
\* and not answered with another code or with a result.
C14_MalformedEnvelopeIsProtocolError ==
    (Handled /\ MalformedEnvelope) =>
        /\ WroteEnvelope
        /\ has(WrittenEnvelope, "error")
        /\ WrittenEnvelope.error.code \in {-32700, -32600}

\* C15: the HTTP transport answers every request with status 200 and the
\* JSON-RPC envelope in the body, also for JSON-RPC errors and unexpected
\* exceptions; it uses another status, 413, only when the size guard rejects.
C15_HttpStatusIs200Or413 ==
    (Handled /\ transport = "http") =>
        /\ Len(written) = 1
        /\ has(written[1].body, "json")
        /\ written[1].statusCode \in {200, 413}
        /\ written[1].statusCode = 413 =>
              WrittenEnvelope.error.data.size > MAX_RESPONSE_SIZE

IsSampling(request) == Field(request, "method") = "sampling/createMessage"

C17_InitializeEchoesVersion ==
    (HandledRequest /\ Field(TheRequest, "method") = "initialize") =>
        LET params == paramsOf(TheRequest)
        IN  /\ WroteEnvelope
            /\ has(WrittenEnvelope, "result")
            /\ WrittenEnvelope.result.protocolVersion =
                  (IF has(params, "protocolVersion") THEN params.protocolVersion
                   ELSE "2024-11-05")
            /\ WrittenEnvelope.result.serverInfo = SERVER_INFO

----------------------------------------------------------------------------
\* Claims about the bridge process

\* C18: on the stdio transport the end of the input stream never ends the
\* process: it ends only on a termination signal (SIGINT, SIGTERM) or on a
\* startup failure, and never as a consequence of handling a request.
C18_ExitOnlyOnSignalOrStartupFailure ==
    exitCause \in {"running", "signal", "startup"}

----------------------------------------------------------------------------
\* Claims about state kept between requests

\* C19: the server keeps no cross-request state: with the same store contents
\* the response to a request is the one a server that has handled nothing
\* before gives, whatever requests were handled before it.
C19_ResponseIndependentOfHistory ==
    HandledRequest =>
        IF transport = "local"
        THEN returned = handleRequest(TheRequest, reachesInitialize(TheRequest))
        ELSE returned = <<lambdaHandler(input)>>

\* The local router's handler for the request reads the documents or the index
ReadsStore(request) ==
    LET method == Field(request, "method")
    IN  \/ method = "resources/list"
        \/ method = "tools/call" /\ has(request, "params")
        \/ /\ method = "resources/read"
           /\ has(request, "params")
           /\ has(request.params, "uri")

\* C20: in the local router the lazy initialization of the document store has
\* completed before a data-bearing handler (tools/call, resources/list,
\* resources/read) reads the store, also when it is the first request.
C20_InitializedBeforeStoreRead ==
    (HandledRequest /\ transport = "local" /\ ReadsStore(TheRequest)) => initialized

----------------------------------------------------------------------------
\* The writers of the index table and of the documents bucket: the document
\* processor, the index builder, the webhook handler and the upload script.
\* An object key is <<folder, filename, ".md">>.

T_api == <<"a", "p", "i">>
T_guideTag == <<"g", "u", "i", "d", "e">>
T_reference == <<"r", "e", "f", "e", "r", "e", "n", "c", "e">>
T_overview == <<"O", "v", "e", "r", "v", "i", "e", "w">>
T_authentication ==
    <<"A", "u", "t", "h", "e", "n", "t", "i", "c", "a", "t", "i", "o", "n">>
T_release == <<"V", "1">>

\* Every id a writer of the model can store, in the order of the sort key
SortedIds == <<"api-api-v1-users-get", "api-overview", "authentication", "overview",
               "schema-user", "user", "users", "v1">>

\* The rows of a partition, as a Query returns them: ordered by sort key
rowsInKeyOrder(rows) ==
    LET present == SelectSeq(SortedIds, LAMBDA id : \E row \in rows : row.id = id)
    IN  [k \in 1..Len(present) |-> CHOOSE row \in rows : row.id = present[k]]

\* PutCommand / the PutRequests of a BatchWriteCommand on the DOCUMENT
\* partition: an item replaces the row of its sort key, whatever that row held
PutItems(rows, items) ==
    rowsInKeyOrder({row \in SeqRange(rows) : \A item \in items : item.id # row.id}
                   \cup items)

\* ---- document processor ----

\* The OpenAPI specifications uploaded to the bucket
OpenAPISpecs ==
    {[operations |-> <<[path |-> "/api/v1/users", method |-> "get",
                        summary |-> T_users, tags |-> <<T_users>>]>>,
      schemas |-> <<>>],
     [operations |-> <<>>, schemas |-> <<"user">>]}

withS3Key(doc, s3Key) ==
    [f \in DOMAIN doc \cup {"s3Key"} |-> IF f = "s3Key" THEN s3Key ELSE doc[f]]

\* convertOpenAPIToMarkdown: the overview, then the endpoints, then the schemas
convertOpenAPIToMarkdown(spec) ==
    <<[id |-> "api-overview", category |-> "api", title |-> T_overview,
       tags |-> <<T_overview, T_api>>, s3Key |-> <<"api/", "overview", ".md">>]>>
    \o [i \in 1..Len(spec.operations) |->
          LET op == spec.operations[i]
          IN  withS3Key(endpointDocument(op.path, op.method, op.summary, op.tags),
                        <<"api/endpoints/", generateEndpointId(op.path, op.method), ".md">>)]
    \o [i \in 1..Len(spec.schemas) |->
          [id |-> "schema-user", category |-> "reference", title |-> T_schema,
           tags |-> <<T_schema>>, s3Key |-> <<"reference/schemas/", spec.schemas[i], ".md">>]]

\* updateIndex builds an item with path: doc.path and method: doc.method; the
\* DocumentClient (no marshallOptions) rejects an item that holds undefined
marshals(doc) == has(doc, "path") /\ has(doc, "method")

\* The loop `for (const doc of documents) { uploadDocument; updateIndex }`:
\* the bucket keys and the rows it leaves, stopping at the first throw
RECURSIVE processDocuments(_, _, _)
processDocuments(documents, keys, rows) ==
    IF documents = <<>> THEN [keys |-> keys, rows |-> rows]
    ELSE LET doc == Head(documents)
             uploaded == keys \cup {doc.s3Key}
         IN  IF ~marshals(doc) THEN [keys |-> uploaded, rows |-> rows]
             ELSE processDocuments(Tail(documents), uploaded, PutItems(rows, {doc}))

\* ---- index builder ----

filenameOf(key) == key[2]

\* formatTitle(filename): title case of the words of the file name
formatTitle(filename) ==
    CASE filename = "authentication" -> T_authentication
      [] filename = "overview" -> T_overview
      [] filename = "users" -> T_users
      [] filename = "v1" -> T_release

\* extractMetadataFromKey: the id is the file name, the category and the tags
\* come from the folder
extractMetadataFromKey(key) ==
    LET folder == key[1]
        inApi == folder \in {"api/", "api/endpoints/", "api/schemas/"}
        category == CASE inApi -> "api"
                      [] folder = "guides/" -> "guide"
                      [] folder \in {"reference/", "reference/schemas/"} -> "reference"
                      [] OTHER -> "unknown"
        tags == CASE folder = "api/endpoints/" -> <<T_api, T_endpoint>>
                  [] folder = "api/schemas/" -> <<T_api, T_schema>>
                  [] folder = "api/" -> <<T_api>>
                  [] folder = "guides/" -> <<T_guideTag>>
                  [] folder \in {"reference/", "reference/schemas/"} -> <<T_reference>>
                  [] OTHER -> <<>>
    IN  [id |-> filenameOf(key), category |-> category,
         title |-> formatTitle(filenameOf(key)), tags |-> tags]

\* listAllDocuments: the metadata of every markdown object of the bucket
listAllDocuments == {extractMetadataFromKey(key) : key \in blobKeys}

\* buildSearchIndexes: the DOCUMENT item of a document
buildSearchIndexes(doc) ==
    [id |-> doc.id, category |-> doc.category, title |-> doc.title, tags |-> doc.tags,
     searchText |-> toLowerCase(doc.title \o T_space \o join(doc.tags, T_space))]

\* updateIndexes: the document items go out in the first BatchWriteCommand (the
\* model holds fewer than 25 documents), which the table rejects as a whole when
\* two of its items have the same key
updateIndexes(rows, items) ==
    IF \E a, b \in items : a # b /\ a.id = b.id THEN rows
    ELSE PutItems(rows, items)

\* ---- webhook handler ----

\* extractCategory(filePath): the folder under docs/, or general
extractCategory(file) ==
    CASE file[1] = "docs/guides/" -> "guides"
      [] OTHER -> "general"

\* Item of the PutCommand of processDocumentUpdates, by its metadata
metadataItem(category) == [category |-> category]

\* removeDocumentFromIndex: UpdateCommand SET status = deleted on DOC#<path>,
\* which makes the row when there is none
removeDocumentFromIndex(rows, file) ==
    LET old == IF file \in DOMAIN rows THEN rows[file] ELSE EmptyObject
        flagged == [f \in DOMAIN old \cup {"status"} |->
                        IF f = "status" THEN "deleted" ELSE old[f]]
    IN  [k \in DOMAIN rows \cup {file} |-> IF k = file THEN flagged ELSE rows[k]]

\* processDocumentUpdates for one update: the PutCommand replaces the row
putMetadata(rows, file, category) ==
    [k \in DOMAIN rows \cup {file} |->
        IF k = file THEN metadataItem(category) ELSE rows[k]]

\* The markdown files of the repository a push can name
ReleaseFile == <<"releases/", "v1", ".md">>
WebhookFiles == {<<"guides/", "authentication", ".md">>, ReleaseFile}
\* The markdown files of mcp-docs/ the upload script can sync
LocalDocs == {<<"guides/", "authentication", ".md">>,
              <<"reference/", "authentication", ".md">>,
              <<"api/endpoints/", "users", ".md">>}

\* ---- actions ----

writerFrame == UNCHANGED <<blobBytes, storeFails, bridgeVars, routerVars,
                           pagingVars, processVars, loaderVars>>

\* handler of the document processor, for the S3 event of one specification
DocumentProcessor(spec) ==
    /\ transport = "none"
    /\ LET done == processDocuments(convertOpenAPIToMarkdown(spec), blobKeys, store)
       IN  /\ blobKeys' = done.keys
           /\ store' = done.rows
    /\ UNCHANGED metadataRows
    /\ writerFrame

\* handler of the index builder
IndexBuilder ==
    /\ transport = "none"
    /\ store' = updateIndexes(store, {buildSearchIndexes(doc) : doc \in listAllDocuments})
    /\ UNCHANGED <<blobKeys, metadataRows>>
    /\ writerFrame

\* handler of the webhook handler for a push event of one commit: the removed
\* files are flagged, then the added files that could be fetched are stored
WebhookPush(added, removed, fetched) ==
    /\ transport = "none"
    /\ LET flagged == [k \in DOMAIN metadataRows \cup removed |->
                          IF k \in removed
                          THEN removeDocumentFromIndex(metadataRows, k)[k]
                          ELSE metadataRows[k]]
           updated == IF ~fetched THEN flagged
                      ELSE [k \in DOMAIN flagged \cup added |->
                              IF k \in added
                              THEN putMetadata(flagged, k, extractCategory(k))[k]
                              ELSE flagged[k]]
       IN  /\ metadataRows' = updated
           /\ blobKeys' = IF fetched THEN blobKeys \cup added ELSE blobKeys
    /\ UNCHANGED store
    /\ writerFrame

\* handler of the webhook handler for a release event
WebhookRelease ==
    /\ transport = "none"
    /\ blobKeys' = blobKeys \cup {ReleaseFile}
    /\ metadataRows' = putMetadata(metadataRows, ReleaseFile, "releases")
    /\ UNCHANGED store
    /\ writerFrame

\* upload-docs.sh: aws s3 sync --delete of the markdown files of mcp-docs/
SyncDocs(files) ==
    /\ transport = "none"
    /\ blobKeys' = files
    /\ UNCHANGED <<store, metadataRows>>
    /\ writerFrame

\* The listing and search requests a client sends between the writes
ListingRequests ==
    {[kind |-> "json",
      value |-> [jsonrpc |-> "2.0", id |-> "req-1", method |-> "tools/call",
                 params |-> [name |-> tool, arguments |-> EmptyObject]]] :
        tool \in ListTools}
    \cup {[kind |-> "json",
           value |-> [jsonrpc |-> "2.0", id |-> "req-1", method |-> "tools/call",
                      params |-> [name |-> "search_documentation",
                                  arguments |-> [query |-> <<"A", "U">>]]]],
          [kind |-> "json",
           value |-> [jsonrpc |-> "2.0", id |-> "req-1", method |-> "resources/list"]]}

WritersStart ==
    /\ ProcessRunning
    /\ store = <<>>
    /\ blobBytes = 2 * ItemBytes
    /\ storeFails = FALSE
    /\ WritersIdle
    /\ LoaderIdle
    /\ BridgeIdle
    /\ RouterIdle
    /\ PagingIdle
    /\ initialized = FALSE

WritersNext ==
    \/ \E spec \in OpenAPISpecs : DocumentProcessor(spec)
    \/ IndexBuilder
    \/ \E added \in SUBSET WebhookFiles, removed \in SUBSET WebhookFiles,
          fetched \in BOOLEAN : WebhookPush(added, removed, fetched)
    \/ WebhookRelease
    \/ \E files \in SUBSET LocalDocs : SyncDocs(files)
    \/ \E body \in ListingRequests : LambdaInvoke(body)
    \/ ClientReads

SpecWriters == WritersStart /\ [][WritersNext]_vars

----------------------------------------------------------------------------
\* The line callbacks of the local server at their await points.  A callback
\* runs until it awaits a file read; the callbacks of later lines start while
\* it waits.

MaxHandlers == 2      \* line callbacks of a run that reach initialize()

\* The requests whose handling reaches `await this.initialize()`
LoaderRequests ==
    {[jsonrpc |-> "2.0", id |-> "req-1", method |-> "initialize", params |-> EmptyObject],
     [jsonrpc |-> "2.0", id |-> "req-1", method |-> "resources/list"],
     [jsonrpc |-> "2.0", id |-> "req-1", method |-> "tools/call",
      params |-> [name |-> "list_endpoints", arguments |-> EmptyObject]]}

setHandler(h, position) == [handlers EXCEPT ![h] = position]

\* rl.on('line') up to its first await: MCPProtocolHandler.initialize tests the
\* flag and, when it is not set, calls DocumentManager.initialize, which runs
\* to the readFile of loadIndex
LineArrives(request) ==
    /\ transport = "none"
    /\ Len(handlers) < MaxHandlers
    /\ reachesInitialize(request)
    /\ IF initialized
       THEN /\ handlers' = Append(handlers, [pc |-> "done"])
            /\ UNCHANGED loads
       ELSE /\ handlers' = Append(handlers, [pc |-> "loadIndex"])
            /\ loads' = loads + 1
    /\ UNCHANGED <<bridgeVars, storeVars, routerVars, pagingVars, processVars>>

\* The flag is set when DocumentManager.initialize has resolved
finishLoad(h) ==
    /\ handlers' = setHandler(h, [pc |-> "done"])
    /\ initialized' = TRUE

\* The readFile of loadIndex settles; loadDocuments starts on the first
\* reference of the index
IndexRead(h) ==
    /\ handlers[h].pc = "loadIndex"
    /\ IF allDocs = <<>>
       THEN finishLoad(h)
       ELSE /\ handlers' = setHandler(h, [pc |-> "loadDocuments", next |-> 1])
            /\ UNCHANGED initialized
    /\ UNCHANGED <<loads, bridgeVars, storeVars, pagingVars, processVars,
                   transport, input, returned, written, toolsRun>>

\* A readFile of loadDocuments settles
DocumentRead(h) ==
    /\ handlers[h].pc = "loadDocuments"
    /\ IF handlers[h].next = Len(allDocs)
       THEN finishLoad(h)
       ELSE /\ handlers' = setHandler(h, [pc |-> "loadDocuments",
                                          next |-> handlers[h].next + 1])
            /\ UNCHANGED initialized
    /\ UNCHANGED <<loads, bridgeVars, storeVars, pagingVars, processVars,
                   transport, input, returned, written, toolsRun>>

LoaderStart ==
    /\ ProcessRunning
    /\ store \in Stores
    /\ blobBytes = 2 * ItemBytes
    /\ storeFails \in BOOLEAN
    /\ WritersIdle
    /\ LoaderIdle
    /\ BridgeIdle
    /\ RouterIdle
    /\ PagingIdle
    /\ initialized = FALSE

LoaderNext ==
    \/ \E request \in LoaderRequests : LineArrives(request)
    \/ \E h \in 1..Len(handlers) : IndexRead(h)
    \/ \E h \in 1..Len(handlers) : DocumentRead(h)

SpecLoader == LoaderStart /\ [][LoaderNext]_vars

\* ---------------------------------------------------------------------------
\* Search and listing claims
\* ---------------------------------------------------------------------------

\* The request handled is a tools/call of the named tool, answered with a result
AnsweredToolCall(name) ==
    /\ HandledRequest
    /\ IsToolCall(TheRequest)
    /\ Field(paramsOf(TheRequest), "name") = name
    /\ WroteEnvelope
    /\ has(WrittenEnvelope, "result")

\* The structured result of the tool call answered: the Lambda handler wraps it
\* in a text content block, the local router places it in result
AnsweredToolResult ==
    IF transport = "http" THEN WrittenToolResult ELSE WrittenEnvelope.result

\* query is a case-insensitive substring of the title, of the description or of
\* one tag of the document
FieldContains(doc, query) ==
    LET queryLower == toLowerCase(query)
    IN  \/ includes(toLowerCase(doc.title), queryLower)
        \/ has(doc, "description") /\ includes(toLowerCase(doc.description), queryLower)
        \/ \E i \in 1..Len(doc.tags) : includes(toLowerCase(doc.tags[i]), queryLower)

\* C21: search_documentation(query, category) returns exactly the documents of
\* the category (of every category for "all" or no category) one of whose
\* fields title, description, tag contains the query case-insensitively; a
\* document none of whose fields contains the query is never returned.
C21_SearchReturnsExactlyFieldMatches ==
    (AnsweredToolCall("search_documentation") /\ ~storeFails) =>
        LET args == argsOf(paramsOf(TheRequest))
            category == IF has(args, "category") THEN args.category ELSE "all"
            expected == {doc.id : doc \in
                            {d \in SeqRange(store) :
                                /\ category = "all" \/ d.category = category
                                /\ FieldContains(d, args.query)}}
            results == AnsweredToolResult.results
        IN  {results[i].id : i \in 1..Len(results)} = expected

\* C22: list_endpoints returns only documents of category api that carry the
\* tag endpoint (and the tag of the optional tag filter).
C22_ListEndpointsOnlyTaggedEndpoints ==
    (AnsweredToolCall("list_endpoints") /\ ~storeFails) =>
        LET args == argsOf(paramsOf(TheRequest))
            endpoints == AnsweredToolResult.endpoints
        IN  \A i \in 1..Len(endpoints) :
                \E doc \in SeqRange(store) :
                    /\ doc.id = endpoints[i].id
                    /\ doc.category = "api"
                    /\ tagsInclude(doc, T_endpoint)
                    /\ (has(args, "tag") => tagsInclude(doc, args.tag))

\* The endpoint documents of the store for a path and a method
StoredEndpoints(path, method) ==
    {doc \in SeqRange(store) : has(doc, "path") /\ doc.path = path /\ doc.method = method}

\* C23: when the store holds an endpoint document for path P and method M, the
\* Lambda handler's get_endpoint_details(P, M) finds it and returns a result
\* whose id, title and tags are those of the stored document.
C23_EndpointDetailsRoundTrip ==
    LET args == argsOf(paramsOf(TheRequest))
    IN  (/\ HandledRequest
         /\ transport = "http"
         /\ ~storeFails
         /\ IsToolCall(TheRequest)
         /\ Field(paramsOf(TheRequest), "name") = "get_endpoint_details"
         /\ has(args, "endpoint")
         /\ has(args, "method")
         /\ StoredEndpoints(args.endpoint, args.method) # {}) =>
            /\ WroteEnvelope
            /\ has(WrittenEnvelope, "result")
            /\ \E doc \in StoredEndpoints(args.endpoint, args.method) :
                    /\ WrittenToolResult.endpoint.id = doc.id
                    /\ WrittenToolResult.endpoint.title = doc.title
                    /\ WrittenToolResult.endpoint.tags = doc.tags

\* The webhook handler has stored the file of the document and has then
\* flagged it as deleted
FlaggedDeleted(doc) ==
    \E file \in DOMAIN metadataRows :
        /\ has(metadataRows[file], "category")
        /\ Field(metadataRows[file], "status") = "deleted"
        /\ extractMetadataFromKey(file).id = doc.id
        /\ extractMetadataFromKey(file).category = doc.category

\* The ids of the documents a listing or search answer names
ListedIds ==
    LET name == Field(paramsOf(TheRequest), "name")
        items == IF Field(TheRequest, "method") = "resources/list"
                 THEN [i \in 1..Len(WrittenEnvelope.result.resources) |->
                          [id |-> WrittenEnvelope.result.resources[i].uri[2]]]
                 ELSE CASE name = "list_endpoints" -> WrittenToolResult.endpoints
                        [] name = "list_schemas" -> WrittenToolResult.schemas
                        [] name = "list_guides" -> WrittenToolResult.guides
                        [] name = "list_resources" -> WrittenToolResult.resources
                        [] name = "search_documentation" -> WrittenToolResult.results
    IN  {items[i].id : i \in 1..Len(items)}

\* C24: once the webhook handler has flagged a document as deleted, no listing
\* or search (list_endpoints, list_schemas, list_guides, list_resources,
\* resources/list, search_documentation) returns that document.
C24_ListingsOmitDeletedDocuments ==
    (HandledRequest /\ WroteEnvelope /\ has(WrittenEnvelope, "result")) =>
        \A doc \in SeqRange(store) : FlaggedDeleted(doc) => doc.id \notin ListedIds

\* No two DOCUMENT rows have the same id
IdsUnique == \A i, j \in 1..Len(store) : store[i].id = store[j].id => i = j

\* A step leaves the category of every document id that is stored before it
CategoryKept ==
    \A old \in SeqRange(store) : \A new \in SeqRange(store') :
        old.id = new.id => old.category = new.category

\* C25: document ids are unique, and across the writes of the document
\* processor, of the index builder and of the webhook handler the category
\* stored under a document id never changes once the id is written.
C25_IdsUniqueAndCategoryImmutable == [][IdsUnique' /\ CategoryKept]_vars

\* C26: every response a router produces holds exactly one of result and error.
C26_ExactlyOneOfResultAndError ==
    (Handled /\ WroteEnvelope) =>
        has(WrittenEnvelope, "result") # has(WrittenEnvelope, "error")

\* The local router answers a request of an unknown method with an error
\* envelope that holds no result
C26_Witness ==
    /\ HandledRequest
    /\ transport = "local"
    /\ Field(TheRequest, "method") = "foo/bar"
    /\ WroteEnvelope
    /\ has(WrittenEnvelope, "error")
    /\ ~has(WrittenEnvelope, "result")

\* The ids written by the ordering bridge are 0, 1, 2, ... up to lastSentId
ContiguousRun ==
    bridgeKind = "queue" =>
        /\ lastSentId = Len(stdout) - 1
        /\ \A i \in 1..Len(stdout) : stdout[i].id = i - 1
        /\ \A k \in DOMAIN responseQueue : k > lastSentId + 1

\* C27: the ordering buffer of the stdio bridge releases responses only as a
\* contiguous run: id k is written after every smaller id, the written ids are
\* consecutive, no id is written twice and lastSentId never decreases,
\* whatever the order in which the outbound calls complete.
C27_BufferReleasesContiguousRun ==
    /\ []ContiguousRun
    /\ [][lastSentId' >= lastSentId]_vars

\* The bridge has written a run of two responses and holds a later one back
C27_Witness ==
    /\ bridgeKind = "queue"
    /\ Len(stdout) = 2
    /\ DOMAIN responseQueue = {3}

\* C28: in the local stdio server, whose line callbacks interleave at their
\* await points, DocumentManager.initialize is executed at most once.
C28_DocumentManagerInitializedOnce == loads <= 1

\* The tool names of a router
Registry ==
    IF transport = "http"
    THEN {"search_documentation", "get_endpoint_details", "list_endpoints", "get_schema",
          "list_schemas", "get_document", "list_guides", "list_resources"}
    ELSE {"search_documentation", "get_endpoint_details", "list_endpoints", "get_schema"}

\* The answer written is the Unknown tool error of the dispatch
UnknownToolAnswer ==
    /\ WroteEnvelope
    /\ has(WrittenEnvelope, "error")
    /\ WrittenEnvelope.error.message[1] = "Unknown tool: "

\* C29: in each router the tool names tools/list advertises are the names
\* tools/call dispatches, and they are the same for every request.
C29_ToolRegistryConsistentAndFixed ==
    /\ (HandledRequest /\ Field(TheRequest, "method") = "tools/list") =>
          /\ WroteEnvelope
          /\ has(WrittenEnvelope, "result")
          /\ SeqRange(WrittenEnvelope.result.tools) = Registry
          /\ Len(WrittenEnvelope.result.tools) = Cardinality(Registry)
    /\ (/\ HandledRequest
        /\ IsToolCall(TheRequest)
        /\ has(TheRequest, "params")
        /\ has(TheRequest.params, "name")) =>
          (TheRequest.params.name \in Registry <=> ~UnknownToolAnswer)

\* The Lambda router has dispatched a tool that the local router does not
\* have, after the local router has handled a request
C29_Witness ==
    /\ HandledRequest
    /\ transport = "http"
    /\ IsToolCall(TheRequest)
    /\ Field(paramsOf(TheRequest), "name") = "list_guides"
    /\ WroteEnvelope
    /\ has(WrittenEnvelope, "result")
    /\ initialized

\* C30: the request router is read-only with respect to storage: no step of a
\* sequence of requests, on either router, changes the Document Store or the
\* Blob Store.
C30_RouterLeavesStoresUnchanged ==
    [][/\ store' = store
       /\ blobBytes' = blobBytes
       /\ blobKeys' = blobKeys
       /\ metadataRows' = metadataRows]_vars

\* The Lambda router has read a row and its blob for get_document
C30_Witness ==
    /\ HandledRequest
    /\ transport = "http"
    /\ IsToolCall(TheRequest)
    /\ Field(paramsOf(TheRequest), "name") = "get_document"
    /\ WroteEnvelope
    /\ has(WrittenEnvelope, "result")
    /\ Len(store) = MaxDocs
====
